---- MODULE Spec2Model ----
(***************************************************************************)
(* Forecast aggregation pipeline: the carry-forward engine                 *)
(* (carry_forward.py), the ordered Brier rule (ordered_brier_eval.py), the *)
(* individual scorer (individual_scoring.py), the cross-forecaster         *)
(* aggregator (aggregation.py) and the freeze/rank/trim controller         *)
(* (pipeline.py).                                                          *)
(*                                                                         *)
(* Days are integers (whole calendar days; every Timestamp in the code is  *)
(* floored to a day, so a Timedelta comparison is an integer comparison).  *)
(* A probability is an integer number of units of 1/PScale, PScale a power *)
(* of two: every such value is exactly representable in binary32, so the   *)
(* float32 downcast of the "prob" column is exact on the modelled values.  *)
(***************************************************************************)
EXTENDS Integers, Sequences, FiniteSets, TLC

\* ---------------------------------------------------------------- bounds
NQ == 2          \* question ids 1..NQ
NG == 2          \* forecasters (membership guid) 1..NG
NB == 2          \* buckets (answer sort order) 1..NB
MaxDay == 3      \* calendar days 1..MaxDay
PBits == 0       \* probabilities are k / 2^PBits
MaxRows == 3     \* rows of the forecaster_day table (engine specification)
MaxStale == 1    \* staleness limits 0..MaxStale, or none
MaxSubs == 3     \* submissions of the input (pipeline specification)
MaxTrimDay == 2  \* calendar days 1..MaxTrimDay of the pipeline specification
MaxMinDays == 2  \* min_days_eligibility in 1..MaxMinDays
NQFreeze == 4    \* freeze-day specification: up to NQFreeze questions, any days
NQWide == 25     \* freeze-day specification: up to NQWide questions, patterned days
MaxShift == 2    \* rotations 0..MaxShift of the patterned days
MaxWidth == 2    \* questions per day 1..MaxWidth of the patterned days
FracDen == 25    \* resolved fractions k / FracDen
NGWide == 22     \* ranking specification: forecasters 1..NGWide
TrimDen == 22    \* trim fractions k / TrimDen
MaxK == 4        \* ordered Brier: vectors of 1..MaxK buckets
BrierDen == 4    \* ordered Brier: forecast entries k / BrierDen
AggGuids == 3    \* aggregator: forecasters 1..AggGuids of the narrow tables
AggWide == 10    \* aggregator: forecasters 1..AggWide of the wide tables

PScale == 2 ^ PBits
NoLimit == 0 - 1                      \* max_staleness_days=None
NoDay == 0                            \* NaT / missing correctness_known_day

Qids == 1 .. NQ
Guids == 1 .. NG
Buckets == 1 .. NB
Days == 1 .. MaxDay
Probs == 0 .. PScale
StaleChoices == {NoLimit} \cup (0 .. MaxStale)

\* one row of forecaster_day
Row == [qid : Qids, guid : Guids, day : Days, aso : Buckets, prob : Probs]

VARIABLES
    forecaster_day,      \* the input table, a sequence of rows in row order
    max_staleness_days,  \* NoLimit or a number of days
    pc,                  \* position in carry_forward_snapshots
    q_todo,              \* groups of groupby("discover question id") still to visit
    qid,                 \* the question of the current group
    days_sorted,         \* days of the current question still to visit
    latest_probs,        \* dict (guid, aso) -> prob, in insertion order
    latest_day,          \* dict (guid, aso) -> last update day
    rows_q,              \* records emitted for the current question
    out_chunks,          \* chunks of the finished questions
    snapshots,           \* the returned table
    ck,                  \* correctness_known_day of each question (NoDay: none)
    truth,               \* the bucket whose resolved_probability is 1, per question
    resolved_fraction_at_freeze,   \* [n, d]
    bottom_frac_to_trim,           \* [n, d]
    min_days_eligibility,
    tpc,                 \* position in the pipeline runners
    plain_core,          \* what the plain run computed (agg, day_scores)
    freeze_day,
    per_q_guid,          \* ranking rows, one per (question, forecaster)
    eligible,            \* the ranking rows that pass the eligibility filter
    excluded_guids,
    snapshots_full,
    core,                \* what run_aggregate_with_trimming returns
    ob_probs,            \* ordered_brier_from_distribution: the forecast vector
    ob_outcome,          \* ordered_brier_from_distribution: the outcome vector
    ob_score,            \* what ordered_brier_from_distribution returned or raised
    agg_out,             \* what aggregate_across_forecasters returned
    si_out               \* what score_individuals returned

inputVars == <<forecaster_day, max_staleness_days>>
engineVars == <<pc, q_todo, qid, days_sorted, latest_probs, latest_day,
                rows_q, out_chunks, snapshots>>
paramVars == <<ck, truth, resolved_fraction_at_freeze, bottom_frac_to_trim,
               min_days_eligibility>>
trimVars == <<tpc, plain_core, freeze_day, per_q_guid, eligible, excluded_guids,
              snapshots_full, core>>
callVars == <<ob_probs, ob_outcome, ob_score, agg_out, si_out>>
vars == <<inputVars, engineVars, paramVars, trimVars, callVars>>

\* ------------------------------------------------------- generic helpers
Max(a, b) == IF a >= b THEN a ELSE b
Min(a, b) == IF a <= b THEN a ELSE b

RECURSIVE SortSet(_)
\* sorted(...) of a set of integers, ascending
SortSet(S) ==
    IF S = {} THEN <<>>
    ELSE LET m == CHOOSE x \in S : \A y \in S : x <= y
         IN <<m>> \o SortSet(S \ {m})

RECURSIVE Distinct(_)
\* the distinct elements of a sequence in order of first appearance
\* (pd.unique, groupby(sort=False) group order)
Distinct(s) ==
    IF s = <<>> THEN <<>>
    ELSE LET r == Distinct(SubSeq(s, 1, Len(s) - 1))
             x == s[Len(s)]
         IN IF \E i \in 1 .. Len(r) : r[i] = x THEN r ELSE Append(r, x)

Range(s) == {s[i] : i \in 1 .. Len(s)}

RECURSIVE InsertSorted(_, _)
\* s ascending; x placed after the entries <= x
InsertSorted(s, x) ==
    IF s = <<>> THEN <<x>>
    ELSE IF x < Head(s) THEN <<x>> \o s
    ELSE <<Head(s)>> \o InsertSorted(Tail(s), x)

RECURSIVE SortAsc(_)
\* the integers of a sequence in ascending order (sort_values, np.sort)
SortAsc(s) ==
    IF s = <<>> THEN <<>>
    ELSE InsertSorted(SortAsc(SubSeq(s, 1, Len(s) - 1)), s[Len(s)])

\* --------------------------------------------------------- exact numbers
\* A real number of the program is held as a reduced fraction [n, d], d > 0.
\* The float arithmetic of the code is modelled by exact arithmetic.
Abs(x) == IF x < 0 THEN 0 - x ELSE x

RECURSIVE GCD(_, _)
GCD(a, b) == IF b = 0 THEN a ELSE GCD(b, a % b)

Rat(n, d) ==
    LET sn == IF d < 0 THEN 0 - n ELSE n
        sd == Abs(d)
        g == GCD(Abs(sn), sd)
    IN [n |-> sn \div g, d |-> sd \div g]

RInt(k) == [n |-> k, d |-> 1]
RZero == RInt(0)
ROne == RInt(1)
RAdd(a, b) == Rat(a.n * b.d + b.n * a.d, a.d * b.d)
RSub(a, b) == Rat(a.n * b.d - b.n * a.d, a.d * b.d)
RMul(a, b) == Rat(a.n * b.n, a.d * b.d)
RDiv(a, b) == Rat(a.n * b.d, a.d * b.n)
RLeq(a, b) == a.n * b.d <= b.n * a.d
RLt(a, b) == a.n * b.d < b.n * a.d
RFloor(a) == a.n \div a.d
RCeil(a) == 0 - ((0 - a.n) \div a.d)

\* a probability of k units as a number
PVal(k) == Rat(k, PScale)

RECURSIVE RSum(_)
RSum(s) == IF s = <<>> THEN RZero ELSE RAdd(Head(s), RSum(Tail(s)))

RMean(s) == RDiv(RSum(s), RInt(Len(s)))

\* np.cumsum
CumSum(s) == [i \in 1 .. Len(s) |-> RSum(SubSeq(s, 1, i))]

\* ------------------------------------------------------- Python floats
\* A Python float is an IEEE 754 binary64 number.  Where the code rounds a
\* product to an integer (math.ceil, math.floor) the rounding of the product
\* matters, so there the float is modelled bit for bit: a float is held as
\* [m, e], m its significand bits, least significant first, value int(m) * 2^e.
MantBits == 53

Reverse(s) == [i \in 1 .. Len(s) |-> s[Len(s) + 1 - i]]

RECURSIVE BitsOf(_)
\* the bits of a natural number, least significant first
BitsOf(c) == IF c = 0 THEN <<>> ELSE <<c % 2>> \o BitsOf(c \div 2)

RECURSIVE IntOf(_)
\* the natural number of a (short) bit sequence
IntOf(bits) == IF bits = <<>> THEN 0 ELSE Head(bits) + 2 * IntOf(Tail(bits))

\* bits + 1: the lowest 0 becomes 1 and the 1s below it become 0
IncBits(bits) ==
    LET zeros == {i \in 1 .. Len(bits) : bits[i] = 0}
        z == IF zeros = {} THEN Len(bits) + 1
             ELSE CHOOSE i \in zeros : \A j \in zeros : i <= j
    IN [i \in 1 .. Max(Len(bits), z) |->
           IF i < z THEN 0 ELSE IF i = z THEN 1 ELSE bits[i]]

RECURSIVE DivBits(_, _, _)
\* the next k binary digits of rem / d (0 <= rem < d), most significant first,
\* followed by the remainder that is left
DivBits(rem, d, k) ==
    IF k = 0 THEN <<rem>>
    ELSE LET bit == IF 2 * rem >= d THEN 1 ELSE 0
         IN <<bit>> \o DivBits(2 * rem - bit * d, d, k - 1)

RECURSIVE LeadShift(_, _)
\* the least t with n * 2^t >= d
LeadShift(n, d) == IF n >= d THEN 0 ELSE 1 + LeadShift(2 * n, d)

\* round to nearest, ties to even, to MantBits significant bits
RoundBits(bits, e) ==
    IF Len(bits) <= MantBits THEN [m |-> bits, e |-> e]
    ELSE LET cut == Len(bits) - MantBits
             kept == SubSeq(bits, cut + 1, Len(bits))
             sticky == \E i \in 1 .. cut - 1 : bits[i] = 1
             up == bits[cut] = 1 /\ (sticky \/ kept[1] = 1)
         IN [m |-> IF up THEN IncBits(kept) ELSE kept, e |-> e + cut]

\* the float of a number 0 <= r <= 1 written as a literal or a quotient:
\* the binary64 number nearest to r
ToDouble(r) ==
    IF r.n = 0 THEN [m |-> <<>>, e |-> 0]
    ELSE LET t == LeadShift(r.n, r.d)
             digs == DivBits(r.n * 2 ^ t - r.d, r.d, MantBits + 1)
             msb == <<1>> \o SubSeq(digs, 1, MantBits + 1)
             sticky == IF digs[MantBits + 2] = 0 THEN <<>> ELSE <<1>>
         IN RoundBits(sticky \o Reverse(msb), 0 - t - (MantBits + 1) - Len(sticky))

RECURSIVE MulBits(_, _, _)
\* bits * k + carry
MulBits(bits, k, carry) ==
    IF bits = <<>> THEN BitsOf(carry)
    ELSE LET t == Head(bits) * k + carry
         IN <<t % 2>> \o MulBits(Tail(bits), k, t \div 2)

\* x * k for a float x and an int k >= 1 (k converts exactly): the exact
\* product, rounded
MulDouble(x, k) == RoundBits(MulBits(x.m, k, 0), x.e)

\* the bits of x at and above the binary point (x < 2^31, x.e <= 0)
IntPart(x) == IntOf(SubSeq(x.m, 1 - x.e, Len(x.m)))

\* some bit of x lies below the binary point
HasFraction(x) == \E i \in 1 .. Min(0 - x.e, Len(x.m)) : x.m[i] = 1

\* math.floor(x), math.ceil(x)
FloorDouble(x) == IntPart(x)
CeilDouble(x) == IntPart(x) + (IF HasFraction(x) THEN 1 ELSE 0)

\* The numpy float64 arithmetic of the scoring rule (+, -, *, / on binary64,
\* each result rounded to nearest, ties to even), on the same [m, e] floats.
\* Exponents stay far from the subnormal and overflow ranges.
\* w, evaluated once v has been: the operations of a float expression are
\* carried out one after another
Then(v, w) == IF v = v THEN w ELSE w

\* the elements of f as an array
Array(f) == SubSeq(f, 1, Len(f))

Zeros(k) == [i \in 1 .. k |-> 0]

\* without the zero bits above the leading 1
StripHigh(bits) ==
    LET ones == {i \in 1 .. Len(bits) : bits[i] = 1}
    IN IF ones = {} THEN <<>>
       ELSE SubSeq(bits, 1, CHOOSE i \in ones : \A j \in ones : j <= i)

\* the same value with an odd significand (0 as <<>> and exponent 0)
Canon(x) ==
    LET ones == {i \in 1 .. Len(x.m) : x.m[i] = 1}
        low == CHOOSE i \in ones : \A j \in ones : i <= j
    IN IF ones = {} THEN [m |-> <<>>, e |-> 0]
       ELSE [m |-> SubSeq(x.m, low, Len(x.m)), e |-> x.e + low - 1]

\* Long significands are handled LimbBits bits at a time: a natural number
\* as its digits in base 2^LimbBits, least significant first, no high zeros.
LimbBits == 15
LimbBase == 2 ^ LimbBits

StripLimbs(a) ==
    LET pos == {i \in 1 .. Len(a) : a[i] # 0}
    IN IF pos = {} THEN <<>>
       ELSE SubSeq(a, 1, CHOOSE i \in pos : \A j \in pos : j <= i)

RECURSIVE LimbOf(_)
\* the number of up to LimbBits bits, by halves
LimbOf(bits) ==
    IF Len(bits) <= 1 THEN (IF bits = <<>> THEN 0 ELSE bits[1])
    ELSE LET h == Len(bits) \div 2
         IN LimbOf(SubSeq(bits, 1, h)) + 2 ^ h * LimbOf(SubSeq(bits, h + 1, Len(bits)))

ToLimbs(bits) ==
    StripLimbs(Array([k \in 1 .. (Len(bits) + LimbBits - 1) \div LimbBits |->
                   LimbOf(SubSeq(bits, LimbBits * (k - 1) + 1, Min(LimbBits * k, Len(bits))))]))

ToBits(a) ==
    StripHigh(Array([i \in 1 .. LimbBits * Len(a) |->
                  (a[(i - 1) \div LimbBits + 1] \div 2 ^ ((i - 1) % LimbBits)) % 2]))

\* digit i of a, 0 above its length
Digit(a, i) == IF i <= Len(a) THEN a[i] ELSE 0

\* a + b: a carry enters digit i from the nearest lower digit whose sum
\* overflows, when every digit sum between is LimbBase - 1
AddLimbs(a, b) ==
    LET S(i) == Digit(a, i) + Digit(b, i)
        CarryInto(i) ==
            \E j \in 1 .. i - 1 :
                S(j) >= LimbBase /\ \A k \in j + 1 .. i - 1 : S(k) = LimbBase - 1
    IN StripLimbs(Array([i \in 1 .. Max(Len(a), Len(b)) + 1 |->
                            (S(i) + (IF CarryInto(i) THEN 1 ELSE 0)) % LimbBase]))

\* a - b, for a >= b
SubLimbs(a, b) ==
    LET BorrowInto(i) ==
            \E j \in 1 .. i - 1 :
                Digit(a, j) < Digit(b, j)
                /\ \A k \in j + 1 .. i - 1 : Digit(a, k) = Digit(b, k)
    IN StripLimbs(Array([i \in 1 .. Len(a) |->
                            (a[i] - Digit(b, i) - (IF BorrowInto(i) THEN 1 ELSE 0))
                                % LimbBase]))

\* a < b
LessLimbs(a, b) ==
    IF Len(a) # Len(b) THEN Len(a) < Len(b)
    ELSE \E i \in 1 .. Len(a) :
            /\ a[i] < b[i]
            /\ \A j \in i + 1 .. Len(a) : a[j] = b[j]

\* a * k for one digit k
TimesLimb(a, k) ==
    AddLimbs(Array([i \in 1 .. Len(a) |-> (a[i] * k) % LimbBase]),
             <<0>> \o Array([i \in 1 .. Len(a) |-> (a[i] * k) \div LimbBase]))

RECURSIVE ProductLimbs(_, _)
\* a * b
ProductLimbs(a, b) ==
    IF a = <<>> \/ b = <<>> THEN <<>>
    ELSE LET rest == ProductLimbs(Tail(a), b)
             low == TimesLimb(b, Head(a))
         IN Then(rest, Then(low,
                AddLimbs(low, IF rest = <<>> THEN rest ELSE <<0>> \o rest)))

\* one digit of a long division: the c with c * d <= rem < (c + 1) * d, for
\* rem < d * LimbBase and d with its top bit set; it is the estimate from the
\* leading digits or one or two below it
QuotientDigit(rem, d) ==
    IF LessLimbs(rem, d) THEN 0
    ELSE LET L == Len(d)
             top2 == Digit(rem, L + 1) * LimbBase + rem[L]
             qhat == Min(LimbBase - 1, top2 \div d[L])
         IN CHOOSE c \in {qhat - 2, qhat - 1, qhat} :
                /\ c >= 1
                /\ ~LessLimbs(rem, TimesLimb(d, c))
                /\ LessLimbs(rem, TimesLimb(d, c + 1))

RECURSIVE DivModLimbs(_, _)
\* quotient digits (one per digit of n) and remainder of n by d
DivModLimbs(n, d) ==
    IF Len(n) < Len(d) THEN [q |-> Zeros(Len(n)), r |-> StripLimbs(n)]
    ELSE LET hi == DivModLimbs(Tail(n), d)
             rem == StripLimbs(<<Head(n)>> \o hi.r)
             digit == QuotientDigit(rem, d)
             left == IF digit = 0 THEN rem ELSE SubLimbs(rem, TimesLimb(d, digit))
         IN Then(hi, Then(left, [q |-> <<digit>> \o hi.q, r |-> left]))

\* the float nearest to int(bits) * 2^e
RoundDouble(bits, e) ==
    LET stripped == StripHigh(bits)
        rounded == RoundBits(stripped, e)
    IN Then(stripped, Then(rounded, Canon(rounded)))

\* the significand of x at the exponent e <= x.e
AtExponent(x, e) == IF x.m = <<>> THEN <<>> ELSE ToLimbs(Zeros(x.e - e) \o x.m)

\* x + y
AddDouble(x, y) ==
    LET e == Min(x.e, y.e)
        a == AtExponent(x, e)
        b == AtExponent(y, e)
        sum == ToBits(AddLimbs(a, b))
    IN Then(x, Then(y, Then(a, Then(b, Then(sum, RoundDouble(sum, e))))))

\* x <= y
LeqDouble(x, y) ==
    LET e == Min(x.e, y.e)
        a == AtExponent(x, e)
        b == AtExponent(y, e)
    IN Then(x, Then(y, Then(a, Then(b, ~LessLimbs(b, a)))))

\* |x - y| (the sign of a difference is lost when it is squared)
AbsDiffDouble(x, y) ==
    LET e == Min(x.e, y.e)
        a == AtExponent(x, e)
        b == AtExponent(y, e)
        diff == ToBits(IF LessLimbs(a, b) THEN SubLimbs(b, a) ELSE SubLimbs(a, b))
    IN Then(x, Then(y, Then(a, Then(b, Then(diff, RoundDouble(diff, e))))))

\* x * y
TimesDouble(x, y) ==
    LET a == ToLimbs(x.m)
        b == ToLimbs(y.m)
        product == ProductLimbs(a, b)
        bits == ToBits(product)
    IN Then(x, Then(y, Then(a, Then(b, Then(product, Then(bits,
           RoundDouble(bits, x.e + y.e)))))))

\* x / y, y > 0.  The divisor is shifted up to whole digits, the dividend to
\* give MantBits + 2 or more quotient bits; a sticky bit below them records a
\* remainder.
DivDouble(x, y) ==
    LET pad == LimbBits * ((Len(y.m) + LimbBits - 1) \div LimbBits) - Len(y.m)
        s == Max(0, Len(y.m) + pad + MantBits + 2 - Len(x.m))
        n == ToLimbs(Zeros(s) \o x.m)
        d == ToLimbs(Zeros(pad) \o y.m)
        dm == DivModLimbs(n, d)
        sticky == IF dm.r = <<>> THEN 0 ELSE 1
        bits == <<sticky>> \o ToBits(dm.q)
    IN Then(x, Then(y,
           IF x.m = <<>> THEN x
           ELSE Then(n, Then(d, Then(dm, Then(bits,
                    RoundDouble(bits, x.e - s - (y.e - pad) - 1)))))))

\* float(k) for a small int k >= 0
DoubleOfInt(k) == Canon([m |-> BitsOf(k), e |-> 0])

\* the float of a fraction 0 <= r <= 1
DoubleOf(r) == Canon(ToDouble(r))

\* ------------------------------------------- ordered_brier_from_distribution
Raised(msg) == [ok |-> FALSE, err |-> msg]
Returned(v) == [ok |-> TRUE, v |-> v]

\* the single bucket doubled instead of complemented
ExpandProbsCopy(probs) ==
    IF Len(probs) = 1 THEN <<probs[1], probs[1]>> ELSE probs

\* lines 34-39: a single bucket is scored against its implicit complement
ExpandProbs(probs) ==
    IF Len(probs) = 1 THEN <<probs[1], RSub(ROne, probs[1])>> ELSE probs

ExpandOutcome(outcome) ==
    IF Len(outcome) = 1 THEN <<outcome[1], RSub(ROne, outcome[1])>> ELSE outcome

\* no rescaling
NormalizeNever(probs) == probs

\* lines 62-64: probs / psum when psum > 0
Normalize(probs) ==
    LET psum == RSum(probs)
    IN IF RLt(RZero, psum) THEN [i \in 1 .. Len(probs) |-> RDiv(probs[i], psum)]
       ELSE probs

\* lines 66-84: the mean over the K-1 splits of 2 * (cum_forecast - cum_truth)^2
SplitMean(probs, outcome) ==
    LET cf == CumSum(probs)
        ct == CumSum(outcome)
        K == Len(probs)
        per == [j \in 1 .. K - 1 |->
                   RMul(RInt(2), RMul(RSub(cf[j], ct[j]), RSub(cf[j], ct[j])))]
    IN RMean(per)

\* rule 1 alone
OneHotErrorValuesOnly(outcome) ==
    IF \E i \in 1 .. Len(outcome) : outcome[i] \notin {RZero, ROne}
    THEN "entries must be 0 or 1 only"
    ELSE "none"

\* lines 46-58: the one-hot check on the (expanded) outcome
OneHotError(outcome) ==
    IF \E i \in 1 .. Len(outcome) : outcome[i] \notin {RZero, ROne}
    THEN "entries must be 0 or 1 only"
    ELSE IF Cardinality({i \in 1 .. Len(outcome) : outcome[i] = ROne}) # 1
    THEN "exactly one category must be 1"
    ELSE "none"

\* ordered_brier_from_distribution(probs, outcome): Returned(score) or Raised(..)
OrderedBrier(probs, outcome) ==
    IF Len(probs) # Len(outcome) THEN Raised("same length")
    ELSE LET p == ExpandProbs(probs)
             y == ExpandOutcome(outcome)
         IN IF OneHotError(y) # "none" THEN Raised(OneHotError(y))
            ELSE Returned(SplitMean(Normalize(p), y))

\* The same function on binary64 forecasts, every operation rounded as numpy
\* rounds it.  The outcome is given as exact numbers; once it has passed the
\* one-hot check its entries are the floats 0.0 and 1.0.
DoubleZero == [m |-> <<>>, e |-> 0]
DoubleOne == DoubleOfInt(1)

RECURSIVE CumSumDouble(_)
\* np.cumsum: each entry is the one before plus the next element
CumSumDouble(v) ==
    IF v = <<>> THEN <<>>
    ELSE LET front == CumSumDouble(SubSeq(v, 1, Len(v) - 1))
             last == IF front = <<>> THEN v[1]
                     ELSE AddDouble(front[Len(front)], v[Len(v)])
         IN Then(front, Append(front, last))

\* probs.sum(), mean(): an array of fewer than 8 floats is added up from the left
SumDouble(v) == IF v = <<>> THEN DoubleZero ELSE CumSumDouble(v)[Len(v)]

\* lines 34-39, for p <= 1
ExpandProbsDouble(probs) ==
    IF Len(probs) = 1 THEN <<probs[1], AbsDiffDouble(DoubleOne, probs[1])>> ELSE probs

\* lines 62-64
NormalizeDouble(probs) ==
    LET psum == SumDouble(probs)
    IN IF psum # DoubleZero
       THEN Array([i \in 1 .. Len(probs) |-> DivDouble(probs[i], psum)])
       ELSE probs

\* lines 66-84
SplitMeanDouble(probs, outcome) ==
    LET K == Len(probs)
        cf == CumSumDouble(probs)
        ct == CumSumDouble([i \in 1 .. K |->
                               IF outcome[i] = ROne THEN DoubleOne ELSE DoubleZero])
        diff == Array([j \in 1 .. K - 1 |-> AbsDiffDouble(cf[j], ct[j])])
        diffsq == Array([j \in 1 .. K - 1 |-> TimesDouble(diff[j], diff[j])])
        per == Array([j \in 1 .. K - 1 |-> TimesDouble(DoubleOfInt(2), diffsq[j])])
        total == SumDouble(per)
    IN Then(cf, Then(ct, Then(diff, Then(diffsq, Then(per, Then(total,
           DivDouble(total, DoubleOfInt(K - 1))))))))

OrderedBrierDouble(probs, outcome) ==
    IF Len(probs) # Len(outcome) THEN Raised("same length")
    ELSE LET p == ExpandProbsDouble(probs)
             y == ExpandOutcome(outcome)
             normalized == NormalizeDouble(p)
         IN IF OneHotError(y) # "none" THEN Raised(OneHotError(y))
            ELSE Then(normalized, Returned(SplitMeanDouble(normalized, y)))

\* ------------------------------------------------- carry_forward_snapshots
\* sub_q: the rows of one question, in row order
SubQ(fd, q) ==
    LET T(r) == r.qid = q IN SelectSeq(fd, T)

\* groupby("discover question id", sort=False): qids by first appearance
GroupQids(fd) == Distinct([i \in 1 .. Len(fd) |-> fd[i].qid])

\* days_sorted = sorted(pd.unique(sub_q["day"]))
DaysSorted(sub_q) == SortSet({sub_q[i].day : i \in 1 .. Len(sub_q)})

\* today_rows = sub_q[sub_q["day"] == day]
TodayRows(sub_q, day) ==
    LET T(r) == r.day = day IN SelectSeq(sub_q, T)

\* the keys of today_rows.groupby(["membership guid", "answer sort order"], sort=False)
TodayKeys(today) == Distinct([i \in 1 .. Len(today) |-> <<today[i].guid, today[i].aso>>])

BlockLastFirst(today, k) ==
    LET T(r) == <<r.guid, r.aso>> = k
        block == SelectSeq(today, T)
    IN block[1].prob

\* float(block["prob"].iloc[-1]) of the block of key k
BlockLast(today, k) ==
    LET T(r) == <<r.guid, r.aso>> = k
        block == SelectSeq(today, T)
    IN block[Len(block)].prob

DictSetAppend(d, k, v) == Append(d, [key |-> k, prob |-> v])

\* d[k] = v on an insertion-ordered dict held as a sequence of entries
DictSet(d, k, v) ==
    IF \E i \in 1 .. Len(d) : d[i].key = k
    THEN [i \in 1 .. Len(d) |-> IF d[i].key = k THEN [key |-> k, prob |-> v] ELSE d[i]]
    ELSE Append(d, [key |-> k, prob |-> v])

RECURSIVE UpdateProbs(_, _, _)
\* the loop of lines 62-66 over the keys of today's groups: latest_probs
UpdateProbs(lp, today, keys) ==
    IF keys = <<>> THEN lp
    ELSE LET k == keys[Len(keys)]
         IN DictSet(UpdateProbs(lp, today, SubSeq(keys, 1, Len(keys) - 1)),
                    k, BlockLast(today, k))

UpdateProbsForget(lp, today) == UpdateProbs(<<>>, today, TodayKeys(today))

\* the state after today's submissions: latest_probs
UpdateState(lp, today) == UpdateProbs(lp, today, TodayKeys(today))

\* the state after today's submissions: latest_day
UpdateDay(ld, today, day) ==
    LET ks == Range(TodayKeys(today))
    IN [k \in (DOMAIN ld) \cup ks |-> IF k \in ks THEN day ELSE ld[k]]

ToDropInclusive(ld, day, S) ==
    IF S = NoLimit THEN {}
    ELSE {k \in DOMAIN ld : (day - ld[k]) >= S}

\* an eviction that pops one stale key a day, the first in key order
ToDropOne(ld, day, S) ==
    LET stale == IF S = NoLimit THEN {} ELSE {k \in DOMAIN ld : (day - ld[k]) > S}
    IN {k \in stale : \A x \in stale :
                         k[1] < x[1] \/ (k[1] = x[1] /\ k[2] <= x[2])}

\* to_drop: the keys whose last update is more than S days before day
ToDrop(ld, day, S) ==
    IF S = NoLimit THEN {}
    ELSE {k \in DOMAIN ld : (day - ld[k]) > S}

\* latest_probs after the pops of lines 75-77
DropProbs(lp, drop) ==
    LET T(e) == e.key \notin drop IN SelectSeq(lp, T)

\* latest_day after the pops of lines 75-77
DropDay(ld, drop) == [k \in (DOMAIN ld) \ drop |-> ld[k]]

\* the records emitted for one day, in dict order (lines 80-92)
Emit(lp, q, day) ==
    [i \in 1 .. Len(lp) |->
        [qid |-> q, guid |-> lp[i].key[1], day |-> day,
         aso |-> lp[i].key[2], prob |-> lp[i].prob]]

\* chunk["prob"].astype("float32"): exact on multiples of 1/PScale
Downcast(chunk) == chunk

EmptyDict == <<>>
EmptyDayMap == [k \in {} |-> NoDay]

\* lines 58-77: the state after one day's update and eviction
DayStep(lp, ld, sub_q, day, S) ==
    LET today == TodayRows(sub_q, day)
        lp1 == UpdateState(lp, today)
        ld1 == UpdateDay(ld, today, day)
        drop == ToDrop(ld1, day, S)
    IN [probs |-> DropProbs(lp1, drop), days |-> DropDay(ld1, drop)]

RECURSIVE CFDays(_, _, _, _, _, _)
\* lines 57-92 as a function: the records emitted for the days still to visit
CFDays(sub_q, q, S, days, lp, ld) ==
    IF days = <<>> THEN <<>>
    ELSE LET st == DayStep(lp, ld, sub_q, Head(days), S)
         IN Emit(st.probs, q, Head(days))
            \o CFDays(sub_q, q, S, Tail(days), st.probs, st.days)

RECURSIVE CFQuestions(_, _, _)
\* lines 49-110 as a function: the chunks of the question groups, concatenated
CFQuestions(fd, S, qs) ==
    IF qs = <<>> THEN <<>>
    ELSE LET sub_q == SubQ(fd, Head(qs))
         IN Downcast(CFDays(sub_q, Head(qs), S, DaysSorted(sub_q), EmptyDict, EmptyDayMap))
            \o CFQuestions(fd, S, Tail(qs))

\* carry_forward_snapshots as a function of its input
CarryForward(fd, S) == CFQuestions(fd, S, GroupQids(fd))

\* the days present in a question's records
ObservedDaysOf(fd, q) == {fd[i].day : i \in {j \in 1 .. Len(fd) : fd[j].qid = q}}

\* ------------------------------------------------------ per-key metadata
\* per_answer_lookup: resolved_probability of (question, bucket); hard resolution
ResolvedProb(q, b) == IF truth[q] = b THEN ROne ELSE RZero

\* a catalog of the buckets of the records dated up to correctness_known_day only
CatalogUpToCutoff(fd, q) ==
    SortSet({fd[i].aso : i \in {j \in 1 .. Len(fd) :
                                   fd[j].qid = q /\ (ck[q] = NoDay \/ fd[j].day <= ck[q])}})

\* the buckets present in the question's records, ascending
\* (answers_catalog; sort_values("answer_sort_order"))
Catalog(fd, q) == SortSet({fd[i].aso : i \in {j \in 1 .. Len(fd) : fd[j].qid = q}})

RECURSIVE RSumCol(_, _)
\* the sum of column col over a set of rows
RSumCol(S, col) ==
    IF S = {} THEN RZero
    ELSE LET x == CHOOSE y \in S : TRUE
         IN RAdd(x[col], RSumCol(S \ {x}, col))

\* ------------------------------------------------------- score_individuals
\* the carried-forward rows of every day, the days after correctness_known_day included
ScoredSnapshotsUntrimmed(fd, S) == CarryForward(fd, S)

\* STEP 1-2: carried-forward rows, without the days after correctness_known_day
ScoredSnapshots(fd, S) ==
    LET T(r) == ck[r.qid] = NoDay \/ r.day <= ck[r.qid]
    IN SelectSeq(CarryForward(fd, S), T)

\* STEP 4 groups: (question, forecaster, day) with a correctness_known_day
\* (groupby drops the groups whose key holds a missing value)
PersonDays(snaps) ==
    {<<snaps[i].qid, snaps[i].guid, snaps[i].day>> :
        i \in {j \in 1 .. Len(snaps) : ck[snaps[j].qid] # NoDay}}

\* STEP 3: the completed bucket vector of one person-day (missing buckets -> 0)
CompletedVector(fd, snaps, q, g, D) ==
    LET cat == Catalog(fd, q)
        Hit(b) == {i \in 1 .. Len(snaps) :
                      /\ snaps[i].qid = q /\ snaps[i].guid = g
                      /\ snaps[i].day = D /\ snaps[i].aso = b}
    IN [j \in 1 .. Len(cat) |->
           IF Hit(cat[j]) = {} THEN RZero
           ELSE PVal(snaps[CHOOSE i \in Hit(cat[j]) : TRUE].prob)]

\* the outcome vector over the catalog of a question
CatalogOutcome(fd, q) ==
    LET cat == Catalog(fd, q)
    IN [j \in 1 .. Len(cat) |-> ResolvedProb(q, cat[j])]

\* STEP 4: one Ordered Brier result per person-day
DailyResults(fd, S) ==
    LET snaps == ScoredSnapshots(fd, S)
    IN {[qid |-> k[1], guid |-> k[2], day |-> k[3],
         probs |-> CompletedVector(fd, snaps, k[1], k[2], k[3]),
         res |-> OrderedBrier(CompletedVector(fd, snaps, k[1], k[2], k[3]),
                              CatalogOutcome(fd, k[1]))] : k \in PersonDays(snaps)}

\* daily: the person-day rows with their score
Daily(results) ==
    {[qid |-> r.qid, guid |-> r.guid, day |-> r.day, brier |-> r.res.v] : r \in results}

\* per_guid_per_question: avg_brier and n_days per (question, forecaster)
PerGuidPerQuestion(daily) ==
    {[qid |-> pr[1], guid |-> pr[2],
      avg_brier |->
          LET mine == {r \in daily : r.qid = pr[1] /\ r.guid = pr[2]}
          IN RDiv(RSumCol(mine, "brier"), RInt(Cardinality(mine))),
      n_days |-> Cardinality({r \in daily : r.qid = pr[1] /\ r.guid = pr[2]})]
     : pr \in {<<r.qid, r.guid>> : r \in daily}}

\* lines 72-75: question_start_day, the earliest day of the question's records
QuestionStartDay(fd, q) ==
    LET ds == {fd[i].day : i \in {j \in 1 .. Len(fd) : fd[j].qid = q}}
    IN CHOOSE d \in ds : \A x \in ds : d <= x

\* lines 77-87: total_days = (correctness_known_day - question_start_day).days + 1
QCalTotalDays(fd, q) == ck[q] - QuestionStartDay(fd, q) + 1

\* lines 90-102: total_days, participation_rate and coverage_adjusted_brier of
\* the rows (a row has n_days >= 1 and a day on or before correctness_known_day,
\* so total_days >= 1 and the rate is positive)
WithParticipation(rows, fd) ==
    {[qid |-> r.qid, guid |-> r.guid, avg_brier |-> r.avg_brier, n_days |-> r.n_days,
      total_days |-> QCalTotalDays(fd, r.qid),
      participation_rate |-> Rat(r.n_days, QCalTotalDays(fd, r.qid)),
      coverage_adjusted_brier |->
          RDiv(r.avg_brier, Rat(r.n_days, QCalTotalDays(fd, r.qid)))]
     : r \in rows}

\* score_individuals: Raised when a person-day fails the one-hot check
ScoreIndividuals(fd, S) ==
    LET results == DailyResults(fd, S)
    IN IF \E r \in results : ~r.res.ok
       THEN Raised("Outcome must be one-hot")
       ELSE Returned([daily |-> Daily(results),
                      per_q_guid |->
                          WithParticipation(PerGuidPerQuestion(Daily(results)), fd)])

\* ---------------------------------------------- aggregate_across_forecasters
TrimFrac == Rat(1, 10)      \* trimmed_mean_prob(trim_frac=0.1)

\* the values (in units) of one (question, day, bucket) group, in row order
GroupProbs(snaps, q, D, b) ==
    LET T(r) == r.qid = q /\ r.day = D /\ r.aso = b
        g == SelectSeq(snaps, T)
    IN [i \in 1 .. Len(g) |-> g[i].prob]

SumInts(s) == RSum([i \in 1 .. Len(s) |-> RInt(s[i])]).n

\* ("prob", "mean")
MeanProb(ps) == Rat(SumInts(ps), Len(ps) * PScale)

\* ("prob", "median")
MedianProb(ps) ==
    LET a == SortAsc(ps)
        n == Len(a)
    IN IF n % 2 = 1 THEN PVal(a[(n + 1) \div 2])
       ELSE Rat(a[n \div 2] + a[n \div 2 + 1], 2 * PScale)

\* trimmed_mean_prob
TrimmedMeanProb(ps) ==
    LET a == SortAsc(ps)
        n == Len(a)
        k == RFloor(RMul(RInt(n), TrimFrac))
        trimmed == IF k * 2 >= n THEN a ELSE SubSeq(a, k + 1, n - k)
    IN Rat(SumInts(trimmed), Len(trimmed) * PScale)

\* geometric_mean_prob and geometric_mean_odds are irrational in general: the
\* pooled value is held as the term "method of this multiset of inputs".  On
\* inputs in [0, 1] the clip to [EPS, 1 - EPS] makes both strictly positive.
GeomTerm(method, ps) == [method |-> method, of |-> SortAsc(ps)]

\* the (question, day, bucket) groups of the snapshots
AggKeys(snaps) == {<<snaps[i].qid, snaps[i].day, snaps[i].aso>> : i \in 1 .. Len(snaps)}

\* lines 38-53: the pooled row of one group, before renormalization
Pooled(snaps, k) ==
    LET ps == GroupProbs(snaps, k[1], k[2], k[3])
    IN [qid |-> k[1], day |-> k[2], aso |-> k[3],
        mean_probability |-> MeanProb(ps),
        median_probability |-> MedianProb(ps),
        trimmed_mean_probability |-> TrimmedMeanProb(ps),
        geometric_mean_probability |-> GeomTerm("geometric_mean_prob", ps),
        geometric_mean_odds |-> GeomTerm("geometric_mean_odds", ps),
        n_forecasters |->
            Cardinality({snaps[i].guid : i \in {j \in 1 .. Len(snaps) :
                /\ snaps[j].qid = k[1] /\ snaps[j].day = k[2] /\ snaps[j].aso = k[3]}}),
        resolved_probability |-> ResolvedProb(k[1], k[3])]

\* the renormalization without the test on the number of buckets
RenormAnySize(v, total, size) ==
    IF RLt(RZero, total) THEN RDiv(v, total) ELSE v

\* lines 55-62 for an exact column: divide by the question-day total when the
\* group has several buckets and the total is positive
Renorm(v, total, size) ==
    IF size > 1 /\ RLt(RZero, total) THEN RDiv(v, total) ELSE v

\* lines 55-62 for a term column (its total is positive)
RenormTerm(t, terms, size) ==
    IF size > 1 THEN [raw |-> t, total |-> terms] ELSE t

\* the column of a question-day group, in bucket order
ColumnOf(grp, col) ==
    LET asos == SortSet({x.aso : x \in grp})
    IN [i \in 1 .. Len(asos) |-> (CHOOSE x \in grp : x.aso = asos[i])[col]]

\* lines 55-62: one pooled row renormalized within its question-day group
Renormalized(r, grp) ==
    [r EXCEPT
        !.mean_probability =
            Renorm(@, RSumCol(grp, "mean_probability"), Cardinality(grp)),
        !.median_probability =
            Renorm(@, RSumCol(grp, "median_probability"), Cardinality(grp)),
        !.trimmed_mean_probability =
            Renorm(@, RSumCol(grp, "trimmed_mean_probability"), Cardinality(grp)),
        !.geometric_mean_probability =
            RenormTerm(@, ColumnOf(grp, "geometric_mean_probability"), Cardinality(grp)),
        !.geometric_mean_odds =
            RenormTerm(@, ColumnOf(grp, "geometric_mean_odds"), Cardinality(grp))]

\* aggregate_across_forecasters: the rows, keyed by (question, day, bucket)
Aggregate(snaps) ==
    LET pooled == {Pooled(snaps, k) : k \in AggKeys(snaps)}
    IN {Renormalized(r, {x \in pooled : x.qid = r.qid /\ x.day = r.day}) : r \in pooled}

\* ------------------------------------- compute_ordered_brier_for_aggregates
\* the Ordered Brier result of a column of terms: the one-hot check is exact,
\* the score is held as the term "score of this vector against this outcome"
OrderedBrierTerm(terms, outcome) ==
    LET y == ExpandOutcome(outcome)
    IN IF OneHotError(y) # "none" THEN Raised(OneHotError(y))
       ELSE Returned([score_of |-> terms, outcome |-> outcome])

\* _score_one_day: the five scores of one (question, day) group
ScoreOneDay(agg, q, D) ==
    LET grp == {a \in agg : a.qid = q /\ a.day = D}
        asos == SortSet({a.aso : a \in grp})
        At(j) == CHOOSE a \in grp : a.aso = asos[j]
        Col(c) == [j \in 1 .. Len(asos) |-> At(j)[c]]
        outcome == Col("resolved_probability")
    IN [qid |-> q, day |-> D,
        obs_mean |-> OrderedBrier(Col("mean_probability"), outcome),
        obs_median |-> OrderedBrier(Col("median_probability"), outcome),
        obs_trimmed |-> OrderedBrier(Col("trimmed_mean_probability"), outcome),
        obs_geom_prob |-> OrderedBrierTerm(Col("geometric_mean_probability"), outcome),
        obs_geom_odds |-> OrderedBrierTerm(Col("geometric_mean_odds"), outcome)]

\* compute_ordered_brier_for_aggregates: Raised when a group is not one-hot
DayScores(agg) ==
    LET rows == {ScoreOneDay(agg, k[1], k[2]) : k \in {<<a.qid, a.day>> : a \in agg}}
    IN IF \E r \in rows : ~(/\ r.obs_mean.ok /\ r.obs_median.ok /\ r.obs_trimmed.ok
                              /\ r.obs_geom_prob.ok /\ r.obs_geom_odds.ok)
       THEN Raised("Outcome must be one-hot")
       ELSE Returned(rows)

\* --------------------------------------------------------------- pipeline.py
DefaultFraction == Rat(2, 5)          \* resolved_fraction_at_freeze = 0.40
DefaultBottomFrac == Rat(1, 10)       \* bottom_frac_to_trim = 0.10
MinParticipationRate == Rat(1, 10)    \* min_participation_rate = 0.10
NA == [n |-> 0, d |-> 0]              \* pd.NA / NaN
NotRun == [ok |-> FALSE, err |-> "not run"]

\* _build_snapshots
BuildSnapshots(fd, S) == CarryForward(fd, S)

\* _run_aggregate_from_snapshots: agg and day_scores (the summary and the paper
\* table are read off day_scores); Raised when the scoring raises
RunCore(snaps) ==
    LET agg == Aggregate(snaps)
        ds == DayScores(agg)
    IN IF ds.ok THEN Returned([agg |-> agg, day_scores |-> ds.v]) ELSE ds

\* lines 143-148: the correctness-known days of the resolved questions, ascending
QCk(fd) ==
    LET qs == GroupQids(fd)
        T(q) == ck[q] # NoDay
        res == SelectSeq(qs, T)
    IN SortAsc([i \in 1 .. Len(res) |-> ck[res[i]]])

\* line 152: idx = max(0, math.ceil(resolved_fraction_at_freeze * len(q_ck)) - 1)
FreezeIdx(f, n) == Max(0, CeilDouble(MulDouble(ToDouble(f), n)) - 1)

\* a training slice of the questions resolved strictly before the freeze day
TrainSliceBefore(fd, fz) ==
    LET T(r) == ck[r.qid] # NoDay /\ ck[r.qid] < fz IN SelectSeq(fd, T)

\* line 158: train
TrainSlice(fd, fz) ==
    LET T(r) == ck[r.qid] # NoDay /\ ck[r.qid] <= fz IN SelectSeq(fd, T)

\* lines 169-179, 202: total_days of a training question
TotalDays(train, q) ==
    LET start == CHOOSE d \in {train[i].day : i \in {j \in 1 .. Len(train) : train[j].qid = q}} :
                     \A i \in 1 .. Len(train) : train[i].qid = q => d <= train[i].day
    IN Max(1, ck[q] - start + 1)

\* lines 203-204: participation_rate, clipped to [0, 1]
ParticipationRate(n_days, total_days) ==
    LET r == Rat(n_days, total_days)
    IN IF RLt(ROne, r) THEN ROne ELSE IF RLt(r, RZero) THEN RZero ELSE r

\* lines 205-207: coverage_adjusted_brier
CoverageAdjusted(avg_brier, rate) ==
    IF rate = RZero THEN NA ELSE RDiv(avg_brier, rate)

\* lines 182-207: the ranking rows
RankingRows(rows, train) ==
    {[qid |-> r.qid, guid |-> r.guid, avg_brier |-> r.avg_brier, n_days |-> r.n_days,
      total_days |-> TotalDays(train, r.qid),
      participation_rate |-> ParticipationRate(r.n_days, TotalDays(train, r.qid)),
      coverage_adjusted_brier |->
          CoverageAdjusted(r.avg_brier,
                           ParticipationRate(r.n_days, TotalDays(train, r.qid)))]
     : r \in rows}

\* lines 210-214: eligible
Eligible(rows, min_days) ==
    {r \in rows :
        /\ r.n_days >= min_days
        /\ RLeq(MinParticipationRate, r.participation_rate)
        /\ r.coverage_adjusted_brier # NA}

\* lines 220-223: eligible_mean, score per forecaster
EligibleMean(elig) ==
    [g \in {r.guid : r \in elig} |->
        LET mine == {r \in elig : r.guid = g}
        IN RDiv(RSumCol(mine, "coverage_adjusted_brier"), RInt(Cardinality(mine)))]

\* line 224: n_trim = max(1, math.floor(bottom_frac_to_trim * len(eligible_mean)))
NTrim(bf, n) == Max(1, FloorDouble(MulDouble(ToDouble(bf), n)))

\* line 225: sort_values("score", ascending=False).head(n), 1 <= n <= len: the
\* n highest-scored forecasters; the sort is not stable, so forecasters tied
\* at the n-th score are taken in any combination
HeadSets(score, n) ==
    LET G == DOMAIN score
        t == CHOOSE t \in {score[g] : g \in G} :
                 /\ Cardinality({g \in G : RLt(t, score[g])}) < n
                 /\ n <= Cardinality({g \in G : RLeq(t, score[g])})
        Before == {g \in G : RLt(t, score[g])}
        Tie == {g \in G : score[g] = t}
    IN {Before \cup T : T \in {T \in SUBSET Tie : Cardinality(T) = n - Cardinality(Before)}}

PostFreezeMaskInclusive(r, fz, excl) == r.day >= fz /\ r.guid \in excl

\* a mask that drops the excluded forecasters' first bucket only
PostFreezeMaskFirstBucket(r, fz, excl) == r.day > fz /\ r.guid \in excl /\ r.aso = 1

\* line 233: mask_drop
PostFreezeMask(r, fz, excl) == r.day > fz /\ r.guid \in excl

\* the runners have not been entered
TrimIdle ==
    /\ tpc = "idle"
    /\ plain_core = NotRun
    /\ freeze_day = NoDay
    /\ per_q_guid = {}
    /\ eligible = {}
    /\ excluded_guids = {}
    /\ snapshots_full = <<>>
    /\ core = NotRun

\* the scoring functions are not being called on their own
CallIdle ==
    /\ ob_probs = <<>>
    /\ ob_outcome = <<>>
    /\ ob_score = NotRun
    /\ agg_out = NotRun
    /\ si_out = NotRun

\* carry_forward_snapshots is not being stepped
EngineIdle ==
    /\ pc = "idle"
    /\ q_todo = <<>>
    /\ qid = 0
    /\ days_sorted = <<>>
    /\ latest_probs = EmptyDict
    /\ latest_day = EmptyDayMap
    /\ rows_q = <<>>
    /\ out_chunks = <<>>
    /\ snapshots = <<>>

\* ------------------------------------------------------------ the engine
TypeOK ==
    /\ forecaster_day \in Seq(Row)
    /\ max_staleness_days \in StaleChoices
    /\ pc \in {"idle", "groupby", "day", "done"}
    /\ tpc \in {"idle", "plain", "start", "train", "rank", "snapshots", "core",
                "done", "aborted", "failed"}

\* The engine uses question, forecaster and bucket ids only as keys compared
\* for equality, so the first row is taken to carry the ids (1, 1, 1).
EngineInputs ==
    {fd \in UNION {[1 .. n -> Row] : n \in 0 .. MaxRows} :
        Len(fd) > 0 => (fd[1].qid = 1 /\ fd[1].guid = 1 /\ fd[1].aso = 1)}

Init ==
    /\ forecaster_day \in EngineInputs
    /\ max_staleness_days \in StaleChoices
    /\ pc = "groupby"
    /\ q_todo = GroupQids(forecaster_day)
    /\ qid = 0
    /\ days_sorted = <<>>
    /\ latest_probs = EmptyDict
    /\ latest_day = EmptyDayMap
    /\ rows_q = <<>>
    /\ out_chunks = <<>>
    /\ snapshots = <<>>
    /\ ck = [q \in Qids |-> NoDay]
    /\ truth = [q \in Qids |-> 1]
    /\ resolved_fraction_at_freeze = DefaultFraction
    /\ bottom_frac_to_trim = DefaultBottomFrac
    /\ min_days_eligibility = 1
    /\ TrimIdle
    /\ CallIdle

CFGroupByNoReset ==
    /\ pc = "groupby"
    /\ q_todo # <<>>
    /\ qid' = Head(q_todo)
    /\ q_todo' = Tail(q_todo)
    /\ days_sorted' = DaysSorted(SubQ(forecaster_day, Head(q_todo)))
    /\ rows_q' = <<>>
    /\ pc' = "day"
    /\ UNCHANGED <<callVars, inputVars, paramVars, trimVars, latest_probs, latest_day, out_chunks, snapshots>>

\* lines 49-55: enter the next question group with fresh state
CFGroupBy ==
    /\ pc = "groupby"
    /\ q_todo # <<>>
    /\ qid' = Head(q_todo)
    /\ q_todo' = Tail(q_todo)
    /\ days_sorted' = DaysSorted(SubQ(forecaster_day, Head(q_todo)))
    /\ latest_probs' = EmptyDict
    /\ latest_day' = EmptyDayMap
    /\ rows_q' = <<>>
    /\ pc' = "day"
    /\ UNCHANGED <<callVars, inputVars, paramVars, trimVars, out_chunks, snapshots>>

\* lines 57-92: one iteration of the day loop (update, evict, emit)
CFDay ==
    /\ pc = "day"
    /\ days_sorted # <<>>
    /\ LET day == Head(days_sorted)
           st == DayStep(latest_probs, latest_day, SubQ(forecaster_day, qid), day,
                         max_staleness_days)
       IN /\ latest_probs' = st.probs
          /\ latest_day' = st.days
          /\ rows_q' = rows_q \o Emit(st.probs, qid, day)
    /\ days_sorted' = Tail(days_sorted)
    /\ UNCHANGED <<callVars, inputVars, paramVars, trimVars, pc, q_todo, qid, out_chunks, snapshots>>

\* lines 94-110: the question's records become a chunk
CFChunk ==
    /\ pc = "day"
    /\ days_sorted = <<>>
    /\ out_chunks' = IF rows_q # <<>> THEN out_chunks \o Downcast(rows_q) ELSE out_chunks
    /\ pc' = "groupby"
    /\ UNCHANGED <<callVars, inputVars, paramVars, trimVars, q_todo, qid, days_sorted, latest_probs, latest_day,
                   rows_q, snapshots>>

\* lines 112-120: concatenate the chunks and return
CFReturn ==
    /\ pc = "groupby"
    /\ q_todo = <<>>
    /\ snapshots' = out_chunks
    /\ pc' = "done"
    /\ UNCHANGED <<callVars, inputVars, paramVars, trimVars, q_todo, qid, days_sorted, latest_probs, latest_day,
                   rows_q, out_chunks>>

Next == CFGroupBy \/ CFDay \/ CFChunk \/ CFReturn

Spec == Init /\ [][Next]_vars

\* ------------------------------------------------------------ the runners
\* run_aggregate_variant (lines 100-104), as main() runs it before the trimming run
RunAggregateVariant ==
    /\ tpc = "plain"
    /\ plain_core' = RunCore(BuildSnapshots(forecaster_day, max_staleness_days))
    /\ tpc' = "start"
    /\ UNCHANGED <<callVars, inputVars, engineVars, paramVars, freeze_day, per_q_guid, eligible,
                   excluded_guids, snapshots_full, core>>

TrimFreezeUnchecked ==
    /\ tpc = "start"
    /\ LET q_ck == QCk(forecaster_day)
           idx == FreezeIdx(resolved_fraction_at_freeze, Len(q_ck))
       IN freeze_day' = IF q_ck = <<>> THEN NoDay ELSE q_ck[idx + 1]
    /\ tpc' = "train"
    /\ UNCHANGED <<callVars, inputVars, engineVars, paramVars, plain_core, per_q_guid, eligible,
                   excluded_guids, snapshots_full, core>>

\* lines 149-150: no resolved question, the run aborts
TrimAbortNoResolved ==
    /\ tpc = "start"
    /\ QCk(forecaster_day) = <<>>
    /\ core' = Raised("No resolved questions available to determine a freeze day.")
    /\ tpc' = "aborted"
    /\ UNCHANGED <<callVars, inputVars, engineVars, paramVars, plain_core, freeze_day, per_q_guid,
                   eligible, excluded_guids, snapshots_full>>

\* lines 143-154: the freeze day
TrimFreeze ==
    /\ tpc = "start"
    /\ QCk(forecaster_day) # <<>>
    /\ LET q_ck == QCk(forecaster_day)
           idx == FreezeIdx(resolved_fraction_at_freeze, Len(q_ck))
       IN freeze_day' = q_ck[idx + 1]
    /\ tpc' = "train"
    /\ UNCHANGED <<callVars, inputVars, engineVars, paramVars, plain_core, per_q_guid, eligible,
                   excluded_guids, snapshots_full, core>>

\* lines 157-207: score the training slice and attach the participation columns
TrimTrain ==
    /\ tpc = "train"
    /\ LET train == TrainSlice(forecaster_day, freeze_day)
           sc == ScoreIndividuals(train, max_staleness_days)
       IN IF train = <<>>
          THEN /\ core' = Raised("No questions resolved by freeze day; cannot rank forecasters.")
               /\ tpc' = "aborted"
               /\ UNCHANGED per_q_guid
          ELSE IF ~sc.ok
          THEN /\ core' = sc
               /\ tpc' = "failed"
               /\ UNCHANGED per_q_guid
          ELSE /\ per_q_guid' = RankingRows(sc.v.per_q_guid, train)
               /\ tpc' = "rank"
               /\ UNCHANGED core
    /\ UNCHANGED <<callVars, inputVars, engineVars, paramVars, plain_core, freeze_day, eligible,
                   excluded_guids, snapshots_full>>

ExcludedOfAlwaysTrim(elig, bf) ==
    IF elig = {} THEN {{r.guid : r \in per_q_guid}}
    ELSE LET score == EligibleMean(elig)
             n_trim == NTrim(bf, Cardinality(DOMAIN score))
         IN HeadSets(score, Min(n_trim, Cardinality(DOMAIN score)))

\* lines 216-226: the sets excluded_guids can be
ExcludedOf(elig, bf) ==
    IF elig = {} THEN {{}}
    ELSE LET score == EligibleMean(elig)
             n_trim == NTrim(bf, Cardinality(DOMAIN score))
         IN HeadSets(score, Min(n_trim, Cardinality(DOMAIN score)))

\* lines 209-227: eligibility and the excluded set
TrimRank ==
    /\ tpc = "rank"
    /\ eligible' = Eligible(per_q_guid, min_days_eligibility)
    /\ excluded_guids' \in ExcludedOf(Eligible(per_q_guid, min_days_eligibility),
                                      bottom_frac_to_trim)
    /\ tpc' = "snapshots"
    /\ UNCHANGED <<callVars, inputVars, engineVars, paramVars, plain_core, freeze_day, per_q_guid,
                   snapshots_full, core>>

\* the full-period snapshots with no row dropped
DropNothing(full, fz, excl) == full

\* lines 232-236: the rows kept of the full-period snapshots
DropExcluded(full, fz, excl) ==
    LET Keep(r) == ~PostFreezeMask(r, fz, excl)
    IN IF excl # {} THEN SelectSeq(full, Keep) ELSE full

\* lines 230-236: full-period snapshots without the excluded forecasters' post-freeze rows
TrimSnapshots ==
    /\ tpc = "snapshots"
    /\ snapshots_full' = DropExcluded(BuildSnapshots(forecaster_day, max_staleness_days),
                                      freeze_day, excluded_guids)
    /\ tpc' = "core"
    /\ UNCHANGED <<callVars, inputVars, engineVars, paramVars, plain_core, freeze_day, per_q_guid,
                   eligible, excluded_guids, core>>

\* lines 238-241: the shared core on the trimmed snapshots
TrimCore ==
    /\ tpc = "core"
    /\ core' = RunCore(snapshots_full)
    /\ tpc' = IF RunCore(snapshots_full).ok THEN "done" ELSE "failed"
    /\ UNCHANGED <<callVars, inputVars, engineVars, paramVars, plain_core, freeze_day, per_q_guid,
                   eligible, excluded_guids, snapshots_full>>

\* ------------------------------------------------- inputs of the runners
\* A submission is one prediction set: a forecaster's probabilities for every
\* bucket of a question on one day (checks.py: each prediction set covers the
\* answer sort orders 0..n-1; main.py keeps one set per question, forecaster
\* and day).
ProbVectors == {v \in [Buckets -> Probs] : RSum([b \in Buckets |-> RInt(v[b])]).n = PScale}
TrimDays == 1 .. MaxTrimDay
Slots == Qids \X TrimDays \X Guids

RECURSIVE SlotSeq(_)
\* the slots in the order (question, day, forecaster)
SlotSeq(X) ==
    IF X = {} THEN <<>>
    ELSE LET m == CHOOSE x \in X : \A y \in X :
                      \/ x[1] < y[1]
                      \/ (x[1] = y[1] /\ x[2] < y[2])
                      \/ (x[1] = y[1] /\ x[2] = y[2] /\ x[3] <= y[3])
         IN <<m>> \o SlotSeq(X \ {m})

RECURSIVE RowsOfSubs(_, _)
\* the rows of the submissions, one row per bucket
RowsOfSubs(slots, vec) ==
    IF slots = <<>> THEN <<>>
    ELSE LET x == Head(slots)
         IN [b \in Buckets |->
                [qid |-> x[1], guid |-> x[3], day |-> x[2], aso |-> b, prob |-> vec[x][b]]]
            \o RowsOfSubs(Tail(slots), vec)

\* Forecaster ids are keys compared for equality only, so the first
\* submission of the table is taken to be forecaster 1's.
SubmissionTables ==
    {RowsOfSubs(SlotSeq(DOMAIN vec), vec) :
        vec \in UNION {[X -> ProbVectors] :
                          X \in {Y \in SUBSET Slots :
                                    /\ Cardinality(Y) \in 1 .. MaxSubs
                                    /\ SlotSeq(Y)[1][3] = 1}}}

\* main.py attaches one correctness-known day per question (the earliest of its
\* timestamps, or none); records may be dated on either side of it.
CkChoices(fd) ==
    {c \in [Qids -> TrimDays \cup {NoDay}] :
        \A q \in Qids : ObservedDaysOf(fd, q) = {} => c[q] = NoDay}

InitTrim ==
    /\ forecaster_day \in SubmissionTables
    /\ max_staleness_days \in {NoLimit, 0}
    /\ ck \in CkChoices(forecaster_day)
    /\ truth = [q \in Qids |-> 1]
    /\ resolved_fraction_at_freeze = DefaultFraction
    /\ bottom_frac_to_trim \in {DefaultBottomFrac, ROne}
    /\ min_days_eligibility \in 1 .. MaxMinDays
    /\ EngineIdle
    /\ tpc = "plain"
    /\ plain_core = NotRun
    /\ freeze_day = NoDay
    /\ per_q_guid = {}
    /\ eligible = {}
    /\ excluded_guids = {}
    /\ snapshots_full = <<>>
    /\ core = NotRun
    /\ CallIdle

NextTrim ==
    \/ RunAggregateVariant
    \/ TrimAbortNoResolved
    \/ TrimFreeze
    \/ TrimTrain
    \/ TrimRank
    \/ TrimSnapshots
    \/ TrimCore

SpecTrim == InitTrim /\ [][NextTrim]_vars

\* ------------------------------------- inputs of the freeze-day selection
FreezeQids == 1 .. NQWide
FreezeFractions == {Rat(k, FracDen) : k \in 1 .. FracDen}

\* one record per question is enough to list the question in q_ck
OneRowPerQuestion(n) ==
    [i \in 1 .. n |-> [qid |-> i, guid |-> 1, day |-> 1, aso |-> 1, prob |-> PScale]]

\* up to NQFreeze questions: every assignment of days, resolved or not
SmallCk(n) ==
    {c \in [1 .. NQFreeze -> Days \cup {NoDay}] : \A q \in 1 .. NQFreeze : q > n => c[q] = NoDay}

\* more questions, all resolved: width questions per day, days rising with the
\* question id from a rotated start (so the table is not in day order)
PatternCk(n, shift, width) ==
    [q \in FreezeQids |-> IF q > n THEN NoDay ELSE 1 + ((q - 1 + shift) % n) \div width]

InitFreeze ==
    /\ \E n \in 0 .. NQWide :
          /\ forecaster_day = OneRowPerQuestion(n)
          /\ IF n <= NQFreeze
             THEN \E c \in SmallCk(n) :
                      ck = [q \in FreezeQids |-> IF q <= NQFreeze THEN c[q] ELSE NoDay]
             ELSE \E shift \in 0 .. MaxShift, width \in 1 .. MaxWidth :
                      ck = PatternCk(n, shift, width)
    /\ max_staleness_days = NoLimit
    /\ truth = [q \in FreezeQids |-> 1]
    /\ resolved_fraction_at_freeze \in FreezeFractions
    /\ bottom_frac_to_trim = DefaultBottomFrac
    /\ min_days_eligibility = 1
    /\ EngineIdle
    /\ tpc = "start"
    /\ plain_core = NotRun
    /\ freeze_day = NoDay
    /\ per_q_guid = {}
    /\ eligible = {}
    /\ excluded_guids = {}
    /\ snapshots_full = <<>>
    /\ core = NotRun
    /\ CallIdle

NextFreeze == TrimAbortNoResolved \/ TrimFreeze

SpecFreeze == InitFreeze /\ [][NextFreeze]_vars

\* the freeze-day selection followed by the training step
NextFreezeTrain == TrimAbortNoResolved \/ TrimFreeze \/ TrimTrain

SpecFreezeTrain == InitFreeze /\ [][NextFreezeTrain]_vars

\* ------------------------------------------- inputs of the ranking step
TrimFractions == {Rat(k, TrimDen) : k \in 0 .. TrimDen}

\* One single-bucket question, observed on days 1 and 2 and resolved on day 2
\* to its bucket.  Forecaster g submits once, by the pattern g % 3: probability
\* 1 on day 1; probability 0 on day 1; probability 0 on day 2.
WideTable(n) ==
    [g \in 1 .. n |->
        [qid |-> 1, guid |-> g, day |-> IF g % 3 = 2 THEN 2 ELSE 1, aso |-> 1,
         prob |-> IF g % 3 = 0 THEN PScale ELSE 0]]

InitRank ==
    /\ \E n \in 1 .. NGWide : forecaster_day = WideTable(n)
    /\ max_staleness_days = NoLimit
    /\ ck = [q \in Qids |-> IF q = 1 THEN 2 ELSE NoDay]
    /\ truth = [q \in Qids |-> 1]
    /\ resolved_fraction_at_freeze = DefaultFraction
    /\ bottom_frac_to_trim \in TrimFractions
    /\ min_days_eligibility \in 1 .. MaxMinDays
    /\ EngineIdle
    /\ tpc = "start"
    /\ plain_core = NotRun
    /\ freeze_day = NoDay
    /\ per_q_guid = {}
    /\ eligible = {}
    /\ excluded_guids = {}
    /\ snapshots_full = <<>>
    /\ core = NotRun
    /\ CallIdle

\* the trimming run up to its ranking step
NextRank == TrimFreeze \/ TrimTrain \/ TrimRank

SpecRank == InitRank /\ [][NextRank]_vars

\* ------------------------------ ordered_brier_from_distribution, called alone
\* forecast entries k / BrierDen, k in 0 .. BrierDen: vectors that sum to 1,
\* to less, to more, and to 0
BrierProbs == {Rat(k, BrierDen) : k \in 0 .. BrierDen}

\* outcome entries: 0, 1 and a value that is neither
OutcomeVals == {RZero, Rat(1, 2), ROne}

\* the one-hot vector of m entries with its 1 in the first
FirstOf(m) == [i \in 1 .. m |-> IF i = 1 THEN ROne ELSE RZero]

\* every outcome of the forecast's length, and one of every other length
InitBrier ==
    /\ \E n \in 1 .. MaxK :
          /\ ob_probs \in [1 .. n -> BrierProbs]
          /\ \/ ob_outcome \in [1 .. n -> OutcomeVals]
             \/ \E m \in (1 .. MaxK) \ {n} : ob_outcome = FirstOf(m)
    /\ ob_score = NotRun
    /\ agg_out = NotRun
    /\ si_out = NotRun
    /\ forecaster_day = <<>>
    /\ max_staleness_days = NoLimit
    /\ ck = [q \in Qids |-> NoDay]
    /\ truth = [q \in Qids |-> 1]
    /\ resolved_fraction_at_freeze = DefaultFraction
    /\ bottom_frac_to_trim = DefaultBottomFrac
    /\ min_days_eligibility = 1
    /\ EngineIdle
    /\ TrimIdle

\* one call of ordered_brier_from_distribution(probs, outcome)
OrderedBrierCall ==
    /\ ob_score = NotRun
    /\ ob_probs # <<>>
    /\ ob_score' = OrderedBrier(ob_probs, ob_outcome)
    /\ UNCHANGED <<ob_probs, ob_outcome, agg_out, si_out, inputVars, engineVars, paramVars, trimVars>>

NextBrier == OrderedBrierCall

SpecBrier == InitBrier /\ [][NextBrier]_vars

\* --------------------- ordered_brier_from_distribution on binary64 forecasts
\* forecast entries: 0, 1/3, 1 and 3 * 2^-55 (about 8.3e-17)
DoubleProbs ==
    {DoubleZero, DoubleOf(Rat(1, 3)), DoubleOne, [m |-> <<1, 1>>, e |-> 0 - 55]}

\* the one-hot vectors of n entries
OneHots(n) == {[i \in 1 .. n |-> IF i = k THEN ROne ELSE RZero] : k \in 1 .. n}

InitBrierDouble ==
    /\ \E n \in 1 .. MaxK :
          /\ ob_probs \in [1 .. n -> DoubleProbs]
          /\ ob_outcome \in OneHots(n) \cup {[i \in 1 .. n |-> RZero]}
    /\ ob_score = NotRun
    /\ agg_out = NotRun
    /\ si_out = NotRun
    /\ forecaster_day = <<>>
    /\ max_staleness_days = NoLimit
    /\ ck = [q \in Qids |-> NoDay]
    /\ truth = [q \in Qids |-> 1]
    /\ resolved_fraction_at_freeze = DefaultFraction
    /\ bottom_frac_to_trim = DefaultBottomFrac
    /\ min_days_eligibility = 1
    /\ EngineIdle
    /\ TrimIdle

OrderedBrierDoubleCall ==
    /\ ob_score = NotRun
    /\ ob_probs # <<>>
    /\ ob_score' = OrderedBrierDouble(ob_probs, ob_outcome)
    /\ UNCHANGED <<ob_probs, ob_outcome, agg_out, si_out, inputVars, engineVars, paramVars, trimVars>>

NextBrierDouble == OrderedBrierDoubleCall

SpecBrierDouble == InitBrierDouble /\ [][NextBrierDouble]_vars

\* ------------------------------------ aggregate_across_forecasters, called alone
Absent == 0 - 1

\* narrow tables: question 1 on day 1 (every forecaster, every bucket), question 1
\* on day 2 (forecaster 1, every bucket), question 2 on day 1 (forecaster 1, bucket 1)
NarrowCells ==
    [i \in 1 .. AggGuids * NB |-> <<1, 1, ((i - 1) \div NB) + 1, ((i - 1) % NB) + 1>>]
    \o [b \in 1 .. NB |-> <<1, 2, 1, b>>]
    \o << <<2, 1, 1, 1>> >>

\* the snapshot rows of the cells that hold a probability
SnapshotTable(cells, f) ==
    LET all == [i \in 1 .. Len(cells) |->
                   [qid |-> cells[i][1], guid |-> cells[i][3], day |-> cells[i][2],
                    aso |-> cells[i][4], prob |-> f[i]]]
        Held(r) == r.prob # Absent
    IN SelectSeq(all, Held)

\* wide tables: one question-day, AggWide forecasters in every bucket, the first
\* c[b] of them at probability 1 and the others at 0
WideSnapshots(c) ==
    [i \in 1 .. AggWide * NB |->
        LET g == ((i - 1) \div NB) + 1
            b == ((i - 1) % NB) + 1
        IN [qid |-> 1, guid |-> g, day |-> 1, aso |-> b,
            prob |-> IF g <= c[b] THEN PScale ELSE 0]]

InitAggregate ==
    /\ \/ \E f \in [1 .. Len(NarrowCells) -> {Absent} \cup Probs] :
             snapshots = SnapshotTable(NarrowCells, f)
       \/ \E c \in [1 .. NB -> 0 .. AggWide] : snapshots = WideSnapshots(c)
    /\ forecaster_day = <<>>
    /\ max_staleness_days = NoLimit
    /\ ck = [q \in Qids |-> NoDay]
    /\ truth = [q \in Qids |-> 1]
    /\ resolved_fraction_at_freeze = DefaultFraction
    /\ bottom_frac_to_trim = DefaultBottomFrac
    /\ min_days_eligibility = 1
    /\ pc = "idle"
    /\ q_todo = <<>>
    /\ qid = 0
    /\ days_sorted = <<>>
    /\ latest_probs = EmptyDict
    /\ latest_day = EmptyDayMap
    /\ rows_q = <<>>
    /\ out_chunks = <<>>
    /\ TrimIdle
    /\ CallIdle

\* one call of aggregate_across_forecasters(snapshots)
AggregateCall ==
    /\ agg_out = NotRun
    /\ agg_out' = Returned(Aggregate(snapshots))
    /\ UNCHANGED <<ob_probs, ob_outcome, ob_score, si_out, inputVars, engineVars,
                   paramVars, trimVars>>

NextAggregate == AggregateCall

SpecAggregate == InitAggregate /\ [][NextAggregate]_vars

\* ------------------------------------------------ score_individuals, called alone
\* tables of 1..MaxRows rows of question 1, the first row forecaster 1's
\* (forecaster ids are keys compared for equality only)
ScoreTables ==
    {t \in UNION {[1 .. n -> {r \in Row : r.qid = 1}] : n \in 1 .. MaxRows} : t[1].guid = 1}

InitScore ==
    /\ forecaster_day \in ScoreTables
    /\ max_staleness_days \in {NoLimit, MaxStale}
    /\ \E c \in Days \cup {NoDay} : ck = [q \in Qids |-> IF q = 1 THEN c ELSE NoDay]
    /\ truth = [q \in Qids |-> 1]
    /\ resolved_fraction_at_freeze = DefaultFraction
    /\ bottom_frac_to_trim = DefaultBottomFrac
    /\ min_days_eligibility = 1
    /\ EngineIdle
    /\ TrimIdle
    /\ CallIdle

\* one call of score_individuals(forecaster_day, max_staleness_days=...)
ScoreCall ==
    /\ si_out = NotRun
    /\ si_out' = ScoreIndividuals(forecaster_day, max_staleness_days)
    /\ UNCHANGED <<ob_probs, ob_outcome, ob_score, agg_out, inputVars, engineVars,
                   paramVars, trimVars>>

NextScore == ScoreCall

SpecScore == InitScore /\ [][NextScore]_vars

\* ------------------------------ run_aggregate_with_trimming on late submissions
\* Records of single buckets: forecaster 1 on question 1 (one early day),
\* forecaster 2 on question 2 (days 1 and 2), and at most one record dated
\* MaxDay, after every correctness-known day, of any question, forecaster and bucket.
EarlyTables ==
    {<<[qid |-> 1, guid |-> 1, day |-> d, aso |-> b1, prob |-> p1],
       [qid |-> 2, guid |-> 2, day |-> 1, aso |-> b2, prob |-> p2],
       [qid |-> 2, guid |-> 2, day |-> 2, aso |-> b2, prob |-> p3]>> :
        d \in 1 .. 2, b1 \in Buckets, b2 \in Buckets, p1 \in Probs, p2 \in Probs, p3 \in Probs}

LateRecords ==
    {<<>>} \cup {<<[qid |-> q, guid |-> g, day |-> MaxDay, aso |-> b, prob |-> p]>> :
                    q \in 1 .. 2, g \in Guids, b \in Buckets, p \in Probs}

InitLate ==
    /\ \E early \in EarlyTables : \E late \in LateRecords : forecaster_day = early \o late
    /\ max_staleness_days \in {NoLimit, MaxStale}
    /\ \E c \in 1 .. 2 :
          ck = [q \in Qids |-> IF q = 1 THEN c ELSE IF q = 2 THEN 2 ELSE NoDay]
    /\ truth = [q \in Qids |-> 1]
    /\ resolved_fraction_at_freeze = DefaultFraction
    /\ bottom_frac_to_trim = DefaultBottomFrac
    /\ min_days_eligibility \in 1 .. MaxMinDays
    /\ EngineIdle
    /\ tpc = "start"
    /\ plain_core = NotRun
    /\ freeze_day = NoDay
    /\ per_q_guid = {}
    /\ eligible = {}
    /\ excluded_guids = {}
    /\ snapshots_full = <<>>
    /\ core = NotRun
    /\ CallIdle

NextLate ==
    \/ TrimFreeze
    \/ TrimTrain
    \/ TrimRank
    \/ TrimSnapshots
    \/ TrimCore

SpecLate == InitLate /\ [][NextLate]_vars

\* ------------------------------------------------ the input, as the claims read it
Done == pc = "done"

\* positions of the input rows of one (question, forecaster, bucket)
KeyRows(q, g, b) ==
    {i \in 1 .. Len(forecaster_day) :
        /\ forecaster_day[i].qid = q
        /\ forecaster_day[i].guid = g
        /\ forecaster_day[i].aso = b}

\* the days present in the question's input records
ObservedDays(q) ==
    {forecaster_day[i].day : i \in {j \in 1 .. Len(forecaster_day) : forecaster_day[j].qid = q}}

\* the days on which the pair has a genuine submission
SubDays(q, g, b) == {forecaster_day[i].day : i \in KeyRows(q, g, b)}

HasSubBy(q, g, b, D) == \E d \in SubDays(q, g, b) : d <= D

\* the pair's latest submission day on or before D
LastSubDay(q, g, b, D) ==
    CHOOSE d \in SubDays(q, g, b) :
        d <= D /\ \A e \in SubDays(q, g, b) : e <= D => e <= d

\* the probability of the last row, in row order, of the pair's rows dated d
LastSubProb(q, g, b, d) ==
    LET I == {i \in KeyRows(q, g, b) : forecaster_day[i].day = d}
        m == CHOOSE i \in I : \A j \in I : j <= i
    IN forecaster_day[m].prob

\* positions of the snapshot rows of one (question, forecaster, bucket, day)
SnapRows(q, g, b, D) ==
    {i \in 1 .. Len(snapshots) :
        /\ snapshots[i].qid = q
        /\ snapshots[i].guid = g
        /\ snapshots[i].aso = b
        /\ snapshots[i].day = D}

\* C1: with no staleness limit, a pair that submitted on observed day d has a
\* snapshot row on every observed day D >= d of its question, and the row
\* carries the pair's last submitted probability as of D.
C1_CarriedForwardIndefinitely ==
    (Done /\ max_staleness_days = NoLimit) =>
        \A q \in Qids, g \in Guids, b \in Buckets :
            \A d \in SubDays(q, g, b) :
                \A D \in ObservedDays(q) :
                    D >= d =>
                        /\ SnapRows(q, g, b, D) # {}
                        /\ \A i \in SnapRows(q, g, b, D) :
                              snapshots[i].prob
                                  = LastSubProb(q, g, b, LastSubDay(q, g, b, D))

\* C1 witness: a pair submits on d, is carried with that value on a later
\* observed day D on which it does not submit, and its value changes with a
\* later submission on E.
C1_Witness ==
    /\ Done
    /\ max_staleness_days = NoLimit
    /\ \E q \in Qids, g \in Guids, b \in Buckets :
         \E d \in SubDays(q, g, b), E \in SubDays(q, g, b) :
            \E D \in ObservedDays(q) \ SubDays(q, g, b) :
                /\ d < D /\ D < E
                /\ LastSubProb(q, g, b, d) # LastSubProb(q, g, b, E)
                /\ \E i \in SnapRows(q, g, b, D) :
                      snapshots[i].prob = LastSubProb(q, g, b, d)
                /\ \E i \in SnapRows(q, g, b, E) :
                      snapshots[i].prob = LastSubProb(q, g, b, E)

\* C2: with staleness limit S, on every observed day D a pair whose latest
\* submission on or before D was on day d has a snapshot row iff D - d <= S.
C2_StalenessEviction ==
    (Done /\ max_staleness_days # NoLimit) =>
        \A q \in Qids, g \in Guids, b \in Buckets :
            \A D \in ObservedDays(q) :
                HasSubBy(q, g, b, D) =>
                    (SnapRows(q, g, b, D) # {}
                        <=> D - LastSubDay(q, g, b, D) <= max_staleness_days)

\* C2 witness: a pair last active on d is present on the observed day d + S
\* and absent on the observed day d + S + 1.
C2_Witness ==
    /\ Done
    /\ max_staleness_days >= 1
    /\ \E q \in Qids, g \in Guids, b \in Buckets :
         \E d \in SubDays(q, g, b) :
            LET D == d + max_staleness_days
            IN /\ D \in ObservedDays(q) \ SubDays(q, g, b)
               /\ (D + 1) \in ObservedDays(q) \ SubDays(q, g, b)
               /\ LastSubDay(q, g, b, D + 1) = d
               /\ SnapRows(q, g, b, D) # {}
               /\ SnapRows(q, g, b, D + 1) = {}

\* C2 second witness: an evicted pair reappears on the day of its next submission.
C2_Reappears ==
    /\ Done
    /\ max_staleness_days # NoLimit
    /\ \E q \in Qids, g \in Guids, b \in Buckets :
         \E D \in ObservedDays(q), E \in SubDays(q, g, b) :
            /\ HasSubBy(q, g, b, D)
            /\ D < E
            /\ SnapRows(q, g, b, D) = {}
            /\ SnapRows(q, g, b, E) # {}

\* C3: every emitted row carries the probability of the last input row, in row
\* order, among the pair's rows dated on its latest submission day <= D.
C3_LastWriteWins ==
    Done =>
        \A i \in 1 .. Len(snapshots) :
            LET r == snapshots[i]
            IN /\ HasSubBy(r.qid, r.guid, r.aso, r.day)
               /\ r.prob = LastSubProb(r.qid, r.guid, r.aso,
                                       LastSubDay(r.qid, r.guid, r.aso, r.day))

\* C3 witness: a pair has two rows on one day with different values, and the
\* emitted row of that day carries the later one.
C3_Witness ==
    /\ Done
    /\ \E i \in 1 .. Len(forecaster_day), j \in 1 .. Len(forecaster_day) :
         LET a == forecaster_day[i]
             c == forecaster_day[j]
         IN /\ i < j
            /\ a.qid = c.qid /\ a.guid = c.guid /\ a.aso = c.aso /\ a.day = c.day
            /\ a.prob # c.prob
            /\ LastSubProb(c.qid, c.guid, c.aso, c.day) = c.prob
            /\ \E k \in SnapRows(c.qid, c.guid, c.aso, c.day) :
                  snapshots[k].prob = c.prob

\* C4: the output has at most one row per (question, forecaster, day, bucket),
\* and every row is dated on a day present in that question's input.
C4_SnapshotKeyUnique ==
    Done =>
        /\ \A q \in Qids, g \in Guids, b \in Buckets, D \in Days :
              Cardinality(SnapRows(q, g, b, D)) <= 1
        /\ \A i \in 1 .. Len(snapshots) :
              snapshots[i].day \in ObservedDays(snapshots[i].qid)

\* C4 witness: the input has several rows for one forecaster, bucket and day,
\* and the output has exactly one row for that key.
C4_Witness ==
    /\ Done
    /\ \E q \in Qids, g \in Guids, b \in Buckets, D \in Days :
         /\ Cardinality({i \in KeyRows(q, g, b) : forecaster_day[i].day = D}) >= 2
         /\ Cardinality(SnapRows(q, g, b, D)) = 1

\* C5: the rows emitted for a question are those the engine emits on that
\* question's records alone.
C5_QuestionIndependence ==
    Done =>
        \A q \in Qids :
            SubQ(snapshots, q) = CarryForward(SubQ(forecaster_day, q), max_staleness_days)

\* C5 witness: two questions are present; a pair active in the first has no
\* submission in the second and no row there, although the second question is
\* processed with the first question's days behind it.
C5_Witness ==
    /\ Done
    /\ Len(GroupQids(forecaster_day)) = 2
    /\ \E g \in Guids, b \in Buckets :
         LET q1 == GroupQids(forecaster_day)[1]
             q2 == GroupQids(forecaster_day)[2]
         IN /\ SubDays(q1, g, b) # {}
            /\ SubDays(q2, g, b) = {}
            /\ \E D \in ObservedDays(q2) : \E d \in SubDays(q1, g, b) : d <= D
            /\ \A D \in Days : SnapRows(q2, g, b, D) = {}
            /\ \E D \in Days : SnapRows(q1, g, b, D) # {}

\* ------------------------------------------------ the runners, as the claims read them
\* the questions with records and a correctness-known day
ResolvedQids ==
    {q \in Range(GroupQids(forecaster_day)) : ck[q] # NoDay}

\* how many questions have resolved by day d
ResolvedBy(d) == Cardinality({q \in ResolvedQids : ck[q] <= d})

Ranked == tpc \in {"snapshots", "core", "done", "failed"}
Trimmed == tpc \in {"core", "done", "failed"}

\* the untrimmed full-period snapshots of the same input and staleness limit
Untrimmed == BuildSnapshots(forecaster_day, max_staleness_days)

\* C6: the rows the trimming removes are exactly the rows dated after the
\* freeze day of the excluded forecasters, and the aggregate rows of every
\* question-day on or before the freeze day equal those of the plain run.
C6_TrimFrame ==
    /\ Trimmed =>
          /\ Range(snapshots_full) \subseteq Range(Untrimmed)
          /\ Range(Untrimmed) \ Range(snapshots_full)
                 = {r \in Range(Untrimmed) : r.day > freeze_day /\ r.guid \in excluded_guids}
          /\ \A r \in Range(Untrimmed) : r.day <= freeze_day => r \in Range(snapshots_full)
    /\ tpc = "done" =>
          /\ plain_core.ok
          /\ {a \in core.v.agg : a.day <= freeze_day}
                 = {a \in plain_core.v.agg : a.day <= freeze_day}

\* C6 witness: an excluded forecaster loses rows after the freeze day, keeps
\* rows on or before it, and the aggregates of the two runs differ.
C6_Witness ==
    /\ tpc = "done"
    /\ \E g \in excluded_guids :
          /\ \E r \in Range(Untrimmed) : r.guid = g /\ r.day > freeze_day
          /\ \E r \in Range(snapshots_full) : r.guid = g /\ r.day <= freeze_day
          /\ \A r \in Range(snapshots_full) : r.guid = g => r.day <= freeze_day
    /\ core.v.agg # plain_core.v.agg
    /\ \E a \in core.v.agg : a.day <= freeze_day /\ a.n_forecasters = 2

\* the freeze day is where the claim C7 puts it, f * N taken as a real number
FreezeDayAsClaimed ==
    LET f == resolved_fraction_at_freeze
        N == Cardinality(ResolvedQids)
        pos == Max(0, RCeil(RMul(f, RInt(N))) - 1)
        before == Cardinality({q \in ResolvedQids : ck[q] < freeze_day})
    IN /\ \E q \in ResolvedQids : ck[q] = freeze_day
       /\ before <= pos
       /\ pos < ResolvedBy(freeze_day)
       /\ ResolvedBy(freeze_day) * f.d >= f.n * N
       /\ \A q \in ResolvedQids :
             ck[q] < freeze_day => ResolvedBy(ck[q]) * f.d < f.n * N

\* the float product f * N rounds up to the integer the real product rounds up to
FreezeProductExact ==
    LET f == resolved_fraction_at_freeze
        N == Cardinality(ResolvedQids)
    IN CeilDouble(MulDouble(ToDouble(f), N)) = RCeil(RMul(f, RInt(N)))

\* C7: the freeze day stands at position max(0, ceil(f*N) - 1) of the ascending
\* list of the N correctness-known days, and it is the earliest
\* correctness-known day by which at least f*N questions have resolved.
C7_FreezeDay == tpc = "train" => FreezeDayAsClaimed

\* C7, where the float product does not round across an integer: the freeze
\* day is as claimed.
C7_WhenProductExact == (tpc = "train" /\ FreezeProductExact) => FreezeDayAsClaimed

\* C7 witness: 25 questions resolved on 25 different days and f = 7/25 (0.28):
\* the code stops at the 8th day, though 7 = f*N questions have resolved by the 7th.
C7_Witness ==
    /\ tpc = "train"
    /\ Cardinality(ResolvedQids) = 25
    /\ \A p, q \in ResolvedQids : ck[p] = ck[q] => p = q
    /\ resolved_fraction_at_freeze = Rat(7, 25)
    /\ ResolvedBy(7) = 7
    /\ freeze_day = 8

\* C7, ties: three or more resolved questions, two of them sharing the chosen
\* day, an earlier correctness-known day, and a position past the first.
C7_TiedDays ==
    /\ tpc = "train"
    /\ FreezeDayAsClaimed
    /\ Cardinality(ResolvedQids) >= 3
    /\ Cardinality({q \in ResolvedQids : ck[q] = freeze_day}) >= 2
    /\ \E q \in ResolvedQids : ck[q] < freeze_day
    /\ \E q \in ResolvedQids : ck[q] > freeze_day

\* the excluded set is the one the claim C8 describes, bottom_frac_to_trim * E
\* taken as a real number
TrimSelectionAsClaimed ==
    LET score == EligibleMean(eligible)
        Eg == {r.guid : r \in eligible}
        E == Cardinality(Eg)
    IN /\ Cardinality(excluded_guids)
              = Max(1, RFloor(RMul(bottom_frac_to_trim, RInt(E))))
       /\ excluded_guids \subseteq Eg
       /\ \A x \in excluded_guids, y \in Eg \ excluded_guids :
             RLeq(score[y], score[x])

\* the float product bottom_frac_to_trim * E rounds down to the integer the real
\* product rounds down to
TrimProductExact ==
    LET E == Cardinality({r.guid : r \in eligible})
    IN FloorDouble(MulDouble(ToDouble(bottom_frac_to_trim), E))
           = RFloor(RMul(bottom_frac_to_trim, RInt(E)))

\* C8: with E >= 1 eligible forecasters the excluded set has exactly
\* max(1, floor(bottom_frac_to_trim * E)) members, all eligible, and no
\* excluded forecaster scores below an eligible one that is kept.
C8_TrimSelection == (Ranked /\ eligible # {}) => TrimSelectionAsClaimed

\* C8, where the float product does not round across an integer: the excluded
\* set is as claimed.
C8_WhenProductExact ==
    (Ranked /\ eligible # {} /\ TrimProductExact) => TrimSelectionAsClaimed

\* C8 witness: 22 eligible forecasters and bottom_frac_to_trim = 15/22: the
\* code excludes 14 forecasters, one fewer than floor(15/22 * 22) = 15.
C8_Witness ==
    /\ Ranked
    /\ Cardinality({r.guid : r \in eligible}) = 22
    /\ bottom_frac_to_trim = Rat(15, 22)
    /\ Cardinality(excluded_guids) = 14

\* C8, ties and scores: forecasters tied at the last excluded score are split,
\* and every excluded forecaster scores at least as high as every kept one.
C8_SplitTie ==
    /\ Ranked
    /\ TrimSelectionAsClaimed
    /\ \E x \in excluded_guids, y \in {r.guid : r \in eligible} \ excluded_guids :
          EligibleMean(eligible)[y] = EligibleMean(eligible)[x]
    /\ \E x \in excluded_guids, y \in {r.guid : r \in eligible} \ excluded_guids :
          RLt(EligibleMean(eligible)[y], EligibleMean(eligible)[x])

\* C9: with no correctness-known day in the input the trimming run goes no
\* further than its freeze-day step: it aborts with an error, and nothing is
\* scored, built or aggregated by it.
C9_AbortWithoutResolved ==
    (ResolvedQids = {}) =>
        /\ tpc \in {"plain", "start", "aborted"}
        /\ ~core.ok
        /\ freeze_day = NoDay
        /\ per_q_guid = {}
        /\ snapshots_full = <<>>
        /\ (tpc = "aborted" =>
               core = Raised("No resolved questions available to determine a freeze day."))

\* C9 witness: an input with records and no correctness-known day has aborted.
C9_Witness ==
    /\ tpc = "aborted"
    /\ Len(forecaster_day) > 0
    /\ ResolvedQids = {}
    /\ ~core.ok

Called == ob_score # NotRun

NonNegative(v) == \A i \in 1 .. Len(v) : RLeq(RZero, v[i])

OneHot(v) ==
    /\ \A i \in 1 .. Len(v) : v[i] \in {RZero, ROne}
    /\ Cardinality({i \in 1 .. Len(v) : v[i] = ROne}) = 1

RECURSIVE PrefixSum(_, _)
\* v[1] + ... + v[j]
PrefixSum(v, j) == IF j = 0 THEN RZero ELSE RAdd(PrefixSum(v, j - 1), v[j])

\* 2 * (P_j - Y_j)^2 at split j, P_j the cumulative forecast over the total
SplitTerm(p, y, j) ==
    LET P == RDiv(PrefixSum(p, j), PrefixSum(p, Len(p)))
        Y == PrefixSum(y, j)
    IN RMul(RInt(2), RMul(RSub(P, Y), RSub(P, Y)))

RECURSIVE SplitTotal(_, _, _)
SplitTotal(p, y, j) ==
    IF j = 0 THEN RZero ELSE RAdd(SplitTotal(p, y, j - 1), SplitTerm(p, y, j))

ClaimedBrier(p, y) == RDiv(SplitTotal(p, y, Len(p) - 1), RInt(Len(p) - 1))

\* C11: for a forecast vector over K >= 2 buckets with non-negative entries and
\* a positive sum, and a one-hot outcome of the same length, the call returns
\* the mean over the K-1 splits of 2 * (P_j - Y_j)^2, P_j the cumulative
\* forecast up to j divided by the total and Y_j the cumulative outcome.
C11_OrderedBrierValue ==
    (/\ Called
     /\ Len(ob_probs) >= 2
     /\ Len(ob_outcome) = Len(ob_probs)
     /\ NonNegative(ob_probs)
     /\ RLt(RZero, PrefixSum(ob_probs, Len(ob_probs)))
     /\ OneHot(ob_outcome))
    => ob_score = Returned(ClaimedBrier(ob_probs, ob_outcome))

\* the worked example: probs [0, 0.5, 0.25, 0.25], outcome [0, 1, 0, 0] scores
\* (0 + 0.5 + 0.125) / 3
C11_Witness ==
    /\ Called
    /\ ob_probs = <<RZero, Rat(1, 2), Rat(1, 4), Rat(1, 4)>>
    /\ ob_outcome = <<RZero, ROne, RZero, RZero>>
    /\ ob_score = Returned(Rat(5, 24))

\* a forecast that does not sum to 1 is scored on its normalized form
C11_Unnormalized ==
    /\ Called
    /\ ob_probs = <<Rat(1, 2), ROne, Rat(1, 2)>>
    /\ ob_outcome = <<RZero, ROne, RZero>>
    /\ ob_score = Returned(Rat(1, 8))

\* the score in exact arithmetic lies in [0, 2]
RangeExact ==
    (Called /\ ob_score.ok)
    => (RLeq(RZero, ob_score.v) /\ RLeq(ob_score.v, RInt(2)))

\* C12: for a forecast with non-negative entries (the all-zero vector, left
\* unnormalized, included) and a one-hot outcome of the same length, the
\* returned score is at most 2 (a float of this form is never below 0).
C12_ScoreRange ==
    (Called /\ OneHot(ExpandOutcome(ob_outcome)))
    => (ob_score.ok /\ LeqDouble(ob_score.v, DoubleOfInt(2)))

\* probs [1/3, 3 * 2^-55, 0, 0] with the last bucket true scores 2 + 2^-51
C12_Witness ==
    /\ Called
    /\ ob_probs = <<DoubleOf(Rat(1, 3)), [m |-> <<1, 1>>, e |-> 0 - 55],
                    DoubleZero, DoubleZero>>
    /\ ob_outcome = <<RZero, RZero, RZero, ROne>>
    /\ ob_score = Returned([m |-> <<1>> \o Zeros(51) \o <<1>>, e |-> 0 - 51])

\* the all-zero forecast is scored as it is
C12_ZeroVector ==
    /\ Called
    /\ ob_probs = <<DoubleZero, DoubleZero, DoubleZero>>
    /\ ob_outcome = <<ROne, RZero, RZero>>
    /\ ob_score = Returned(DoubleOfInt(2))

\* C13: a single bucket [p] with outcome [y], y 0 or 1, scores what the two
\* buckets [p, 1 - p] with outcome [y, 1 - y] score.
C13_SingleBucketExpansion ==
    (/\ Called
     /\ Len(ob_probs) = 1
     /\ Len(ob_outcome) = 1
     /\ ob_outcome[1] \in {RZero, ROne})
    => ob_score = OrderedBrier(<<ob_probs[1], RSub(ROne, ob_probs[1])>>,
                               <<ob_outcome[1], RSub(ROne, ob_outcome[1])>>)

\* [3/4] against [1] scores 2 * (3/4 - 1)^2, as [3/4, 1/4] against [1, 0]
C13_Witness ==
    /\ Called
    /\ ob_probs = <<Rat(3, 4)>>
    /\ ob_outcome = <<ROne>>
    /\ ob_score = Returned(Rat(1, 8))

\* [3/4] against [0] scores 2 * (3/4)^2, as [3/4, 1/4] against [0, 1]
C13_FalseBucket ==
    /\ Called
    /\ ob_probs = <<Rat(3, 4)>>
    /\ ob_outcome = <<RZero>>
    /\ ob_score = Returned(Rat(9, 8))

\* the outcome as passed is not one-hot
NotOneHot(v) == ~OneHot(v)

\* C14: an outcome of the forecast's length (1 or more entries) that holds a
\* value other than 0 and 1, or whose number of 1s is not exactly one, makes
\* the call raise and return no score.
C14_OneHotValidation ==
    (Called /\ Len(ob_outcome) = Len(ob_probs) /\ NotOneHot(ob_outcome))
    => ~ob_score.ok

\* C14 as the code has it: the check applies to outcomes of two or more
\* entries as stated, and to a single entry [y] after its expansion to
\* [y, 1 - y], so that [y] raises when y is neither 0 nor 1 and [0] is scored.
C14_OneHotAfterExpansion ==
    /\ (Called /\ Len(ob_outcome) = Len(ob_probs) /\ Len(ob_outcome) >= 2
           /\ NotOneHot(ob_outcome))
          => ~ob_score.ok
    /\ (Called /\ Len(ob_outcome) = 1 /\ Len(ob_probs) = 1)
          => (ob_score.ok <=> ob_outcome[1] \in {RZero, ROne})

\* an outcome with two 1s is refused
C14_Witness ==
    /\ Called
    /\ ob_outcome = <<ROne, ROne, RZero>>
    /\ Len(ob_probs) = 3
    /\ ob_score = Raised("exactly one category must be 1")

\* an outcome with a value between 0 and 1 is refused
C14_Fractional ==
    /\ Called
    /\ ob_outcome = <<Rat(1, 2), Rat(1, 2)>>
    /\ Len(ob_probs) = 2
    /\ ob_score = Raised("entries must be 0 or 1 only")

\* the single outcome [0] is accepted
C14_SingleZero ==
    /\ Called
    /\ ob_outcome = <<RZero>>
    /\ Len(ob_probs) = 1
    /\ ob_score.ok

\* ------------------------------------ the aggregator's renormalization, as claimed
AggCalled == agg_out.ok

\* the (question, day) pairs of the snapshots and the buckets present on each
QuestionDays == {<<snapshots[i].qid, snapshots[i].day>> : i \in 1 .. Len(snapshots)}

DayBuckets(q, D) ==
    SortSet({snapshots[i].aso :
                i \in {j \in 1 .. Len(snapshots) :
                          snapshots[j].qid = q /\ snapshots[j].day = D}})

\* the raw pooled value and the returned value of one method column
RawPooled(q, D, b, col) == Pooled(snapshots, <<q, D, b>>)[col]

OutValue(q, D, b, col) ==
    (CHOOSE r \in agg_out.v : r.qid = q /\ r.day = D /\ r.aso = b)[col]

RawColumn(q, D, col) ==
    LET bs == DayBuckets(q, D)
    IN [j \in 1 .. Len(bs) |-> RawPooled(q, D, bs[j], col)]

OutColumn(q, D, col) ==
    LET bs == DayBuckets(q, D)
    IN [j \in 1 .. Len(bs) |-> OutValue(q, D, bs[j], col)]

ExactCols == {"mean_probability", "median_probability", "trimmed_mean_probability"}
TermCols == {"geometric_mean_probability", "geometric_mean_odds"}

\* a column of numbers: divided by its raw sum when the question-day has two or
\* more buckets and the sum is positive, and then summing to 1; else as pooled
ExactRenormalized(q, D, col) ==
    LET raw == RawColumn(q, D, col)
        out == OutColumn(q, D, col)
        total == RSum(raw)
    IN IF Len(raw) >= 2 /\ RLt(RZero, total)
       THEN /\ \A j \in 1 .. Len(raw) : out[j] = RDiv(raw[j], total)
            /\ RSum(out) = ROne
       ELSE out = raw

\* a column of geometric means (each positive, so their sum is positive): every
\* value is its raw value over the sum of the question-day's raw values, so the
\* numerators of the column are the summands of the common denominator
TermRenormalized(q, D, col) ==
    LET raw == RawColumn(q, D, col)
        out == OutColumn(q, D, col)
    IN IF Len(raw) >= 2
       THEN /\ \A j \in 1 .. Len(raw) : out[j] = [raw |-> raw[j], total |-> raw]
            /\ [j \in 1 .. Len(raw) |-> out[j].raw] = out[1].total
       ELSE out = raw

C15_ZeroSum ==
    /\ AggCalled
    /\ \E qd \in QuestionDays :
          /\ Len(DayBuckets(qd[1], qd[2])) >= 2
          /\ RSum(RawColumn(qd[1], qd[2], "median_probability")) = RZero
          /\ RLt(RZero, RSum(RawColumn(qd[1], qd[2], "mean_probability")))
          /\ RSum(OutColumn(qd[1], qd[2], "median_probability")) = RZero
          /\ RSum(OutColumn(qd[1], qd[2], "mean_probability")) = ROne

\* a question-day of one bucket keeps a mean of 1/2
C15_SingleBucket ==
    /\ AggCalled
    /\ \E qd \in QuestionDays :
          /\ Len(DayBuckets(qd[1], qd[2])) = 1
          /\ OutColumn(qd[1], qd[2], "mean_probability") = <<Rat(1, 2)>>

\* ten forecasters: the trimmed means are all zero (the single 1 is trimmed) and
\* left as pooled, the means are divided
C15_TrimmedZero ==
    /\ AggCalled
    /\ \E qd \in QuestionDays :
          /\ Len(DayBuckets(qd[1], qd[2])) >= 2
          /\ RSum(RawColumn(qd[1], qd[2], "trimmed_mean_probability")) = RZero
          /\ RLt(RZero, RSum(RawColumn(qd[1], qd[2], "mean_probability")))
          /\ RSum(OutColumn(qd[1], qd[2], "trimmed_mean_probability")) = RZero

\* ------------------------------------------- the individual scores, as claimed
Scored == si_out.ok

\* the pair of a question and a forecaster has a live estimate on calendar day D:
\* some bucket's latest submission on or before D is not older than the limit
ActiveOn(q, g, D) ==
    \E b \in Buckets :
        /\ HasSubBy(q, g, b, D)
        /\ \/ max_staleness_days = NoLimit
           \/ D - LastSubDay(q, g, b, D) <= max_staleness_days

\* the calendar days from the question's first observed day to its
\* correctness-known day, both included
OpenSpan(q) ==
    LET first == CHOOSE d \in ObservedDays(q) : \A x \in ObservedDays(q) : d <= x
    IN first .. ck[q]

ActiveDays(q, g) == {D \in OpenSpan(q) : ActiveOn(q, g, D)}

ClaimedRate(q, g) == Rat(Cardinality(ActiveDays(q, g)), Cardinality(OpenSpan(q)))

\* C16: the participation_rate of every (question, forecaster) row of
\* score_individuals is the number of days of the question's span (first observed
\* day to correctness-known day) on which the forecaster had an active estimate,
\* over the number of calendar days of the span; coverage_adjusted_brier is
\* avg_brier over that rate
C16_ParticipationRate ==
    Scored =>
        \A r \in si_out.v.per_q_guid :
            /\ r.participation_rate = ClaimedRate(r.qid, r.guid)
            /\ r.coverage_adjusted_brier = RDiv(r.avg_brier, ClaimedRate(r.qid, r.guid))

\* a forecaster whose estimate is live on every day of a span of three days, one
\* of which nobody submitted on
C16_Witness ==
    /\ Scored
    /\ \E r \in si_out.v.per_q_guid :
          /\ Cardinality(OpenSpan(r.qid)) = 3
          /\ ActiveDays(r.qid, r.guid) = OpenSpan(r.qid)
          /\ OpenSpan(r.qid) \ ObservedDays(r.qid) # {}
          /\ RLt(r.participation_rate, ROne)

\* every day of the span is an observed day: the rate is the claimed one
C16_DenseCalendar ==
    (Scored /\ \A q \in Qids : ck[q] # NoDay => OpenSpan(q) \subseteq ObservedDays(q))
        => C16_ParticipationRate

\* a span of three observed days on which the forecaster is live on two
C16_DenseWitness ==
    /\ Scored
    /\ \E r \in si_out.v.per_q_guid :
          /\ OpenSpan(r.qid) = ObservedDays(r.qid)
          /\ r.participation_rate = Rat(2, 3)

\* the forecaster's own records, in row order
OwnRecords(g) ==
    LET Mine(r) == r.guid = g IN SelectSeq(forecaster_day, Mine)

\* the scored days of a (question, forecaster) in a result of score_individuals
ScoredDays(res, q, g) == {r.day : r \in {x \in res.v.daily : x.qid = q /\ x.guid = g}}

\* the result of score_individuals on the forecaster's own records
ScoredAlone(g) == ScoreIndividuals(OwnRecords(g), max_staleness_days)

\* n_days and avg_brier of the (question, forecaster) row of a result
RowOf(res, q, g) == CHOOSE r \in res.v.per_q_guid : r.qid = q /\ r.guid = g

\* C17: the scored days, n_days and avg_brier of every (question, forecaster) are
\* those obtained from the forecaster's own records of the question alone: the
\* other forecasters' submissions do not change them
C17_OwnHistoryOnly ==
    Scored =>
        \A r \in si_out.v.per_q_guid :
            LET alone == ScoredAlone(r.guid)
            IN /\ alone.ok
               /\ ScoredDays(alone, r.qid, r.guid) = ScoredDays(si_out, r.qid, r.guid)
               /\ \E a \in alone.v.per_q_guid : a.qid = r.qid /\ a.guid = r.guid
               /\ RowOf(alone, r.qid, r.guid).n_days = r.n_days
               /\ RowOf(alone, r.qid, r.guid).avg_brier = r.avg_brier

\* two forecasters with records of the same question, both scored
C17_Witness ==
    /\ Scored
    /\ \E r1, r2 \in si_out.v.per_q_guid : r1.qid = r2.qid /\ r1.guid # r2.guid

\* the other forecasters submit only on days and buckets of the forecaster's own
\* records: then the own records alone give the same days, n_days and avg_brier
C17_SameDaysAndBuckets ==
    (Scored /\ \A i, j \in 1 .. Len(forecaster_day) :
                   /\ \E k \in 1 .. Len(forecaster_day) :
                         /\ forecaster_day[k].guid = forecaster_day[i].guid
                         /\ forecaster_day[k].day = forecaster_day[j].day
                   /\ \E k \in 1 .. Len(forecaster_day) :
                         /\ forecaster_day[k].guid = forecaster_day[i].guid
                         /\ forecaster_day[k].aso = forecaster_day[j].aso)
        => C17_OwnHistoryOnly

\* another forecaster's later submission adds a scored day to a forecaster
C17_AddedDay ==
    /\ Scored
    /\ \E r \in si_out.v.per_q_guid :
          /\ ScoredAlone(r.guid).ok
          /\ ScoredDays(ScoredAlone(r.guid), r.qid, r.guid)
                 # ScoredDays(si_out, r.qid, r.guid)
          /\ RowOf(ScoredAlone(r.guid), r.qid, r.guid).n_days < r.n_days

\* forecaster 1 submits 0 on day 1 and 1 on day 3 for the true bucket, forecaster 2
\* submits on day 2: forecaster 1 is scored on three days with average 4/3, and
\* on two days with average 1 from the own records alone
C17_ChangedAverage ==
    /\ Scored
    /\ forecaster_day = <<[qid |-> 1, guid |-> 1, day |-> 1, aso |-> 1, prob |-> 0],
                          [qid |-> 1, guid |-> 2, day |-> 2, aso |-> 1, prob |-> PScale],
                          [qid |-> 1, guid |-> 1, day |-> 3, aso |-> 1, prob |-> PScale]>>
    /\ ck[1] = 3
    /\ max_staleness_days = NoLimit
    /\ RowOf(si_out, 1, 1).n_days = 3
    /\ RowOf(si_out, 1, 1).avg_brier = Rat(4, 3)
    /\ RowOf(ScoredAlone(1), 1, 1).n_days = 2
    /\ RowOf(ScoredAlone(1), 1, 1).avg_brier = ROne

\* the (forecaster, bucket) pair has a live carried-forward entry on day D
EntryLive(q, g, b, D) ==
    /\ HasSubBy(q, g, b, D)
    /\ \/ max_staleness_days = NoLimit
       \/ D - LastSubDay(q, g, b, D) <= max_staleness_days

\* the buckets present in the question's input records, ascending
QuestionBuckets(q) ==
    SortSet({forecaster_day[i].aso :
                i \in {j \in 1 .. Len(forecaster_day) : forecaster_day[j].qid = q}})

\* one entry per bucket of the question: the carried-forward probability of a
\* live entry, 0 for a bucket without one
ClaimedVector(q, g, D) ==
    LET bs == QuestionBuckets(q)
    IN [j \in 1 .. Len(bs) |->
           IF EntryLive(q, g, bs[j], D)
           THEN PVal(LastSubProb(q, g, bs[j], LastSubDay(q, g, bs[j], D)))
           ELSE RZero]

\* the person-days that score_individuals scored, with the vector passed to
\* ordered_brier_from_distribution
ScoredVectors == DailyResults(forecaster_day, max_staleness_days)

\* C18: every scored forecaster-day is scored on the vector that has one entry
\* per bucket of the question's records, in bucket order, 0 for a bucket without
\* a live carried-forward entry and the carried-forward probability otherwise
C18_BucketCompletion ==
    Scored =>
        /\ {<<r.qid, r.guid, r.day>> : r \in ScoredVectors}
               = {<<r.qid, r.guid, r.day>> : r \in si_out.v.daily}
        /\ \A r \in ScoredVectors :
              /\ Len(r.probs) = Len(QuestionBuckets(r.qid))
              /\ r.probs = ClaimedVector(r.qid, r.guid, r.day)
              /\ \E x \in si_out.v.daily :
                    /\ x.qid = r.qid /\ x.guid = r.guid /\ x.day = r.day
                    /\ Returned(x.brier)
                           = OrderedBrier(ClaimedVector(r.qid, r.guid, r.day),
                                          [j \in 1 .. Len(QuestionBuckets(r.qid)) |->
                                              ResolvedProb(r.qid, QuestionBuckets(r.qid)[j])])

\* a scored forecaster-day with a live entry of probability 1 in the second
\* bucket and no live entry in the first: the vector is <<0, 1>>
C18_Witness ==
    /\ Scored
    /\ \E r \in ScoredVectors :
          /\ QuestionBuckets(r.qid) = <<1, 2>>
          /\ ~EntryLive(r.qid, r.guid, 1, r.day)
          /\ EntryLive(r.qid, r.guid, 2, r.day)
          /\ r.probs = <<RZero, ROne>>

\* a bucket present only in a record dated after the correctness-known day is
\* an entry of the vectors of the days before
C18_LateBucket ==
    /\ Scored
    /\ \E r \in ScoredVectors : \E j \in 1 .. Len(r.probs) :
          /\ \A i \in 1 .. Len(forecaster_day) :
                forecaster_day[i].aso = QuestionBuckets(r.qid)[j]
                    => forecaster_day[i].day > ck[r.qid]
          /\ r.probs[j] = RZero

\* a bucket that the forecaster submitted and that was evicted is filled with 0
C18_EvictedBucket ==
    /\ Scored
    /\ \E r \in ScoredVectors : \E j \in 1 .. Len(r.probs) :
          /\ HasSubBy(r.qid, r.guid, QuestionBuckets(r.qid)[j], r.day)
          /\ ~EntryLive(r.qid, r.guid, QuestionBuckets(r.qid)[j], r.day)
          /\ LastSubProb(r.qid, r.guid, QuestionBuckets(r.qid)[j],
                         LastSubDay(r.qid, r.guid, QuestionBuckets(r.qid)[j], r.day)) = PScale
          /\ r.probs[j] = RZero

\* ------------------------------------------------ the ranking score, as claimed
\* the ranking step has run and ranked somebody
SomebodyRanked == Ranked /\ eligible # {}

\* eligible_mean: the score by which the ranked forecasters are sorted
RankingScore == EligibleMean(eligible)

\* the forecaster's rows of the training slice, one per question
TrainingRows(g) == {r \in per_q_guid : r.guid = g}

\* the average of the adjusted scores of all the forecaster's training questions
ClaimedRankingScore(g) ==
    RDiv(RSumCol(TrainingRows(g), "coverage_adjusted_brier"),
         RInt(Cardinality(TrainingRows(g))))

\* C19: the score by which a ranked forecaster is sorted is the average of the
\* forecaster's participation-adjusted score over all of their questions in the
\* training slice
C19_RankingScore ==
    SomebodyRanked =>
        \A g \in DOMAIN RankingScore : RankingScore[g] = ClaimedRankingScore(g)

\* a ranked forecaster with two training questions, both eligible, whose
\* adjusted scores differ
C19_Witness ==
    /\ SomebodyRanked
    /\ \E g \in DOMAIN RankingScore :
          /\ TrainingRows(g) \subseteq eligible
          /\ \E r1, r2 \in TrainingRows(g) :
                /\ r1.qid # r2.qid
                /\ r1.coverage_adjusted_brier # r2.coverage_adjusted_brier

\* a ranked forecaster one of whose training questions is not eligible: the
\* score is the average over the eligible questions only
C19_MixedForecaster ==
    /\ SomebodyRanked
    /\ \E g \in DOMAIN RankingScore :
          /\ TrainingRows(g) \ eligible # {}
          /\ RankingScore[g] # ClaimedRankingScore(g)

\* every ranked forecaster's questions are all eligible: the score is the claimed one
C19_AllQuestionsEligible ==
    (SomebodyRanked /\ \A g \in DOMAIN RankingScore : TrainingRows(g) \subseteq eligible)
        => C19_RankingScore

\* ------------------------------------------- the pre-freeze ranking, as claimed
\* the freeze day and the possible excluded sets of an input table, under the
\* parameters of the run (no set when the run aborts before ranking)
FreezeDayOf(fd) ==
    LET q_ck == QCk(fd)
    IN IF q_ck = <<>> THEN NoDay
       ELSE q_ck[FreezeIdx(resolved_fraction_at_freeze, Len(q_ck)) + 1]

ExcludedSetsOf(fd) ==
    LET train == TrainSlice(fd, FreezeDayOf(fd))
        sc == ScoreIndividuals(train, max_staleness_days)
    IN IF train = <<>> \/ ~sc.ok THEN {}
       ELSE ExcludedOf(Eligible(RankingRows(sc.v.per_q_guid, train), min_days_eligibility),
                       bottom_frac_to_trim)

\* the input without the submissions dated after the freeze day
PreFreeze ==
    LET Early(r) == r.day <= freeze_day IN SelectSeq(forecaster_day, Early)

\* the two inputs hold the same questions, hence the same correctness-known days
SameCalendar == Range(GroupQids(PreFreeze)) = Range(GroupQids(forecaster_day))

LateRows == {i \in 1 .. Len(forecaster_day) : forecaster_day[i].day > freeze_day}

\* C20: the input and the input without its submissions dated after the freeze
\* day, which have the same correctness-known days, give the same freeze day and
\* the same excluded set
C20_PreFreezeOnly ==
    (Ranked /\ SameCalendar) =>
        /\ FreezeDayOf(PreFreeze) = freeze_day
        /\ ExcludedSetsOf(PreFreeze) = ExcludedSetsOf(forecaster_day)
        /\ excluded_guids \in ExcludedSetsOf(PreFreeze)

\* a run with a submission after the freeze day on a training question, two
\* ranked forecasters and one of them excluded
C20_Witness ==
    /\ Ranked /\ SameCalendar
    /\ \E i \in LateRows : ck[forecaster_day[i].qid] <= freeze_day
    /\ Cardinality({r.guid : r \in eligible}) = 2
    /\ Cardinality(excluded_guids) = 1

\* the late submission names a bucket absent from the earlier records of a
\* training question, and the excluded forecaster is not the one excluded on the
\* pre-freeze records
C20_LateBucketFlip ==
    /\ Ranked /\ SameCalendar
    /\ Cardinality(LateRows) = 1
    /\ Cardinality(excluded_guids) = 1
    /\ \A X \in ExcludedSetsOf(PreFreeze) : X \cap excluded_guids = {}
    /\ \A X \in ExcludedSetsOf(forecaster_day) : X = excluded_guids

\* every late submission names a bucket of the earlier records of its question:
\* the freeze day and the excluded set are those of the pre-freeze records
C20_KnownBuckets ==
    (\A i \in LateRows : \E j \in 1 .. Len(forecaster_day) :
         /\ forecaster_day[j].day <= freeze_day
         /\ forecaster_day[j].qid = forecaster_day[i].qid
         /\ forecaster_day[j].aso = forecaster_day[i].aso)
        => C20_PreFreezeOnly

\* ------------------------------------------ no score after resolution, as claimed
\* the daily rows of a (question, forecaster)
DailyRowsOf(q, g) == {r \in si_out.v.daily : r.qid = q /\ r.guid = g}

\* the observed days up to the correctness-known day on which the forecaster has
\* a live entry
LiveDaysUpToCk(q, g) == {D \in ObservedDays(q) : D <= ck[q] /\ ActiveOn(q, g, D)}

\* C21: every daily score row of score_individuals is dated on or before the
\* question's correctness-known day, and n_days and avg_brier of a (question,
\* forecaster) are the count and the mean of the daily scores of those days only
C21_NoScoreAfterResolution ==
    Scored =>
        /\ \A r \in si_out.v.daily : ck[r.qid] # NoDay /\ r.day <= ck[r.qid]
        /\ \A r \in si_out.v.per_q_guid :
              /\ {x.day : x \in DailyRowsOf(r.qid, r.guid)} = LiveDaysUpToCk(r.qid, r.guid)
              /\ r.n_days = Cardinality(LiveDaysUpToCk(r.qid, r.guid))
              /\ r.avg_brier = RDiv(RSumCol(DailyRowsOf(r.qid, r.guid), "brier"),
                                    RInt(Cardinality(LiveDaysUpToCk(r.qid, r.guid))))
        /\ \A q \in Qids : \A g \in Guids :
              LiveDaysUpToCk(q, g) # {} /\ ck[q] # NoDay
                  => \E r \in si_out.v.per_q_guid : r.qid = q /\ r.guid = g

\* a scored forecaster with a live entry on an observed day after the
\* correctness-known day, whose score on that day would differ from the average
C21_Witness ==
    /\ Scored
    /\ \E r \in si_out.v.per_q_guid : \E D \in ObservedDays(r.qid) :
          /\ D > ck[r.qid]
          /\ ActiveOn(r.qid, r.guid, D)
          /\ r.n_days = 1
          /\ r.avg_brier = RZero
          /\ \E b \in Buckets :
                /\ HasSubBy(r.qid, r.guid, b, D)
                /\ LastSubDay(r.qid, r.guid, b, D) = D
                /\ (b = truth[r.qid]) = (LastSubProb(r.qid, r.guid, b, D) = 0)

\* every record of the question is dated after the correctness-known day: no row
C21_AllLate ==
    /\ Scored
    /\ ck[1] # NoDay
    /\ \A i \in 1 .. Len(forecaster_day) : forecaster_day[i].day > ck[1]
    /\ si_out.v.daily = {}
    /\ si_out.v.per_q_guid = {}

\* ---------------------------------------------- post-freeze exclusion, as claimed
\* the untrimmed snapshots without any row of an excluded forecaster
WithoutExcluded ==
    LET Kept(r) == r.guid \notin excluded_guids IN SelectSeq(Untrimmed, Kept)

\* C22: in the result of run_aggregate_with_trimming every aggregate row dated
\* after the freeze day is the row pooled from the non-excluded forecasters alone
\* (values and n_forecasters), on every question, and the rows dated on or before
\* the freeze day are pooled from all forecasters
C22_PostFreezeExclusion ==
    tpc = "done" =>
        /\ {a \in core.v.agg : a.day > freeze_day}
               = {a \in Aggregate(WithoutExcluded) : a.day > freeze_day}
        /\ {a \in core.v.agg : a.day <= freeze_day}
               = {a \in Aggregate(Untrimmed) : a.day <= freeze_day}

\* an excluded forecaster submits after the freeze day on a question outside the
\* training slice, together with another forecaster: the aggregate row of that
\* day counts one forecaster, and the excluded forecaster is counted on the
\* freeze day
C22_Witness ==
    /\ tpc = "done"
    /\ \E g \in excluded_guids : \E i \in 1 .. Len(forecaster_day) :
          /\ forecaster_day[i].guid = g
          /\ forecaster_day[i].day > freeze_day
          /\ ~(ck[forecaster_day[i].qid] # NoDay /\ ck[forecaster_day[i].qid] <= freeze_day)
          /\ \E a \in core.v.agg :
                /\ a.qid = forecaster_day[i].qid /\ a.day = forecaster_day[i].day
                /\ a.n_forecasters = 1
          /\ \E a \in Aggregate(Untrimmed) :
                /\ a.qid = forecaster_day[i].qid /\ a.day = forecaster_day[i].day
                /\ a.n_forecasters = 2
          /\ \E r \in Range(snapshots_full) : r.guid = g /\ r.day = freeze_day

\* a question-day after the freeze day on which only excluded forecasters have
\* entries has no aggregate row
C22_NoRowLeft ==
    /\ tpc = "done"
    /\ \E a \in Aggregate(Untrimmed) :
          /\ a.day > freeze_day
          /\ \A x \in core.v.agg : ~(x.qid = a.qid /\ x.day = a.day)

\* ------------------------------------- single-submission snapshots, as claimed
\* each (question, forecaster, day) group of records is one submission: no
\* bucket appears twice in it
OneSubmissionPerGroup ==
    \A i, j \in 1 .. Len(forecaster_day) :
        (/\ forecaster_day[i].qid = forecaster_day[j].qid
         /\ forecaster_day[i].guid = forecaster_day[j].guid
         /\ forecaster_day[i].day = forecaster_day[j].day
         /\ forecaster_day[i].aso = forecaster_day[j].aso) => i = j

\* the buckets of the forecaster's submission of day d, and the submission days
SubBuckets(q, g, d) == {b \in Buckets : d \in SubDays(q, g, b)}

SubmissionDays(q, g) == {d \in Days : SubBuckets(q, g, d) # {}}

\* every submission of a forecaster on a question covers the same buckets
UniformCoverage ==
    \A q \in Qids : \A g \in Guids : \A d1, d2 \in SubmissionDays(q, g) :
        SubBuckets(q, g, d1) = SubBuckets(q, g, d2)

\* the emitted group of a (question, forecaster, day)
SnapshotGroup(q, g, D) ==
    {snapshots[i] : i \in {j \in 1 .. Len(snapshots) :
        snapshots[j].qid = q /\ snapshots[j].guid = g /\ snapshots[j].day = D}}

\* every bucket of the group was last updated on day d
FromDay(q, g, D, d) ==
    \A r \in SnapshotGroup(q, g, D) :
        HasSubBy(q, g, r.aso, D) /\ LastSubDay(q, g, r.aso, D) = d

C23_EvictedTogether ==
    /\ Done /\ OneSubmissionPerGroup /\ UniformCoverage
    /\ max_staleness_days # NoLimit
    /\ \E q \in Qids : \E g \in Guids : \E D \in ObservedDays(q) : \E d \in Days :
          /\ d < D
          /\ Cardinality(SubBuckets(q, g, d)) = 2
          /\ SnapshotGroup(q, g, d) # {}
          /\ SnapshotGroup(q, g, D) = {}

\* a forecaster submits two buckets one day and one of them on a later day: the
\* later group mixes the two days
C23_MixedGroup ==
    /\ Done /\ OneSubmissionPerGroup
    /\ \E q \in Qids : \E g \in Guids : \E D \in Days :
          /\ Cardinality(SnapshotGroup(q, g, D)) = 2
          /\ \A d \in Days : ~FromDay(q, g, D, d)

\* ------------------------------------------- the training slice is never empty
NoTrainError == "No questions resolved by freeze day; cannot rank forecasters."

\* the freeze-day selection returned: q_ck was not empty and line 153 read it
FreezeSelected == tpc \notin {"plain", "start"} /\ freeze_day # NoDay

\* C24: once the freeze day is selected the training slice (the records of the
\* questions whose correctness-known day is on or before the freeze day) is not
\* empty: it holds every record of a question resolved on the freeze day itself,
\* and the run never raises "No questions resolved by freeze day"
C24_TrainSliceNonEmpty ==
    /\ FreezeSelected =>
          /\ TrainSlice(forecaster_day, freeze_day) # <<>>
          /\ \E i \in 1 .. Len(forecaster_day) : ck[forecaster_day[i].qid] = freeze_day
    /\ ~(core.ok = FALSE /\ core.err = NoTrainError)
    /\ (tpc = "aborted" => freeze_day = NoDay)

\* the training step has run on a slice that leaves out a question resolved
\* after the freeze day
C24_Witness ==
    /\ FreezeSelected
    /\ tpc = "rank"
    /\ \E q \in DOMAIN ck : ck[q] # NoDay /\ ck[q] > freeze_day
    /\ Len(TrainSlice(forecaster_day, freeze_day)) < Len(forecaster_day)

\* the smallest slice: the freeze day is the earliest correctness-known day and
\* one question alone is resolved on it
C24_OneQuestion ==
    /\ FreezeSelected
    /\ tpc = "rank"
    /\ Len(TrainSlice(forecaster_day, freeze_day)) = 1
    /\ Len(QCk(forecaster_day)) > 1

\* ----------------------------------- aggregate scoring of well-formed input
\* the buckets of a question, over all its records
BucketsOfQuestion(q) ==
    {forecaster_day[i].aso : i \in {j \in 1 .. Len(forecaster_day) : forecaster_day[j].qid = q}}

\* every submission covers all the buckets of its question, once each, and the
\* resolved probabilities of a question are one-hot over them
WellFormed ==
    /\ OneSubmissionPerGroup
    /\ \A q \in Qids : \A g \in Guids : \A d \in SubmissionDays(q, g) :
          SubBuckets(q, g, d) = BucketsOfQuestion(q)
    /\ \A q \in Qids : BucketsOfQuestion(q) # {} => truth[q] \in BucketsOfQuestion(q)

\* the (question, day) pairs with an entry in the snapshots
SurvivingDays(snaps) == {<<snaps[i].qid, snaps[i].day>> : i \in 1 .. Len(snaps)}

\* the core ran on snaps without raising, every group of its aggregates holds
\* all the buckets of the question, and the aggregates and the score rows are
\* those of the (question, day) pairs with a surviving entry
CompleteRun(res, snaps) ==
    /\ res.ok
    /\ \A a \in res.v.agg :
          {x.aso : x \in {y \in res.v.agg : y.qid = a.qid /\ y.day = a.day}}
              = BucketsOfQuestion(a.qid)
    /\ {<<a.qid, a.day>> : a \in res.v.agg} = SurvivingDays(snaps)
    /\ {<<r.qid, r.day>> : r \in res.v.day_scores} = SurvivingDays(snaps)
    /\ \A k \in SurvivingDays(snaps) :
          Cardinality({r \in res.v.day_scores : r.qid = k[1] /\ r.day = k[2]}) = 1

\* C25: on well-formed input (every submission covers all the buckets of its
\* question, one-hot resolved probabilities) the aggregate scoring raises no
\* error, with or without a staleness limit and for every excluded set the run
\* selects: each (question, day) group of the aggregates holds all the buckets
\* of the question, and a question-day without a surviving entry has neither an
\* aggregate row nor a score row
C25_AggregateScoringNeverAborts ==
    WellFormed =>
        /\ tpc = "start" => CompleteRun(plain_core, Untrimmed)
        /\ tpc # "failed"
        /\ tpc = "done" => CompleteRun(core, snapshots_full)

\* a trimmed run under a staleness limit in which an observed question-day has
\* lost all its entries: it has no aggregate row and no score row
C25_Witness ==
    /\ WellFormed
    /\ tpc = "done"
    /\ max_staleness_days # NoLimit
    /\ excluded_guids # {}
    /\ \E k \in SurvivingDays(Untrimmed) \ SurvivingDays(snapshots_full) :
          /\ \A a \in core.v.agg : <<a.qid, a.day>> # k
          /\ \A r \in core.v.day_scores : <<r.qid, r.day>> # k

\* a trimmed run in which a group has lost a forecaster and is scored on all
\* its buckets
C25_LostForecaster ==
    /\ WellFormed
    /\ tpc = "done"
    /\ \E a \in core.v.agg : \E b \in plain_core.v.agg :
          /\ a.qid = b.qid /\ a.day = b.day /\ a.aso = b.aso
          /\ a.n_forecasters < b.n_forecasters
          /\ \E r \in core.v.day_scores : r.qid = a.qid /\ r.day = a.day

\* the staleness limit alone evicts a forecaster from a group that is scored
C25_Evicted ==
    /\ WellFormed
    /\ tpc = "start"
    /\ max_staleness_days # NoLimit
    /\ \E a \in plain_core.v.agg : \E i \in 1 .. Len(forecaster_day) :
          /\ forecaster_day[i].qid = a.qid
          /\ forecaster_day[i].day < a.day
          /\ a.n_forecasters = 1
          /\ \A j \in 1 .. Len(Untrimmed) :
                (Untrimmed[j].qid = a.qid /\ Untrimmed[j].day = a.day)
                    => Untrimmed[j].guid # forecaster_day[i].guid

====
